---- MODULE Spec2Model ----
(***************************************************************************)
(* A model of the TD-learning engine (networks.py) and of the hierarchical *)
(* policy composition (policies.py, env_wrappers.py) of Deep-RL-Torch.     *)
(*                                                                         *)
(* Tensors are sequences (row i of a tensor is element i+1), Python's None *)
(* is the empty option <<>> and a present value x is the option <<x>>.     *)
(* A call that can raise returns a record with a field "raised".           *)
(***************************************************************************)
EXTENDS Integers, Sequences, FiniteSets, TLC

VARIABLES
    hyperparameters,  \* the hyperparameters dict the estimator was built from
    live_net,         \* weights of the live value network (layers_TD)
    target_net,       \* OptimizableNet.target_net: None or the target's weights
    td_call,          \* what the last call on the estimator did
    env,              \* the HierarchicalActionWrapper the policy acts in
    policy,           \* the hierarchical policy built on env
    h_call,           \* what the last call on the hierarchical policy did
    agent,            \* the hyperparameters Agent.create_policy built its policy from
    memory,           \* the replay buffer: what memory.add was handed, in order
    a_call            \* what the last call on the agent's policy did

td_vars == <<hyperparameters, live_net, target_net, td_call>>

h_vars == <<env, policy, h_call>>

a_vars == <<agent, memory, a_call>>

vars == <<hyperparameters, live_net, target_net, td_call, env, policy, h_call,
          agent, memory, a_call>>

-----------------------------------------------------------------------------
(* Options and tensors *)

None == <<>>

Some(x) == <<x>>

Returned(v) == [raised |-> FALSE, value |-> v]

Raised == [raised |-> TRUE, value |-> None]

\* number of TRUE entries among mask[1..i]
RECURSIVE CountTrue(_, _)
CountTrue(mask, i) ==
    IF i = 0 THEN 0 ELSE CountTrue(mask, i - 1) + (IF mask[i] THEN 1 ELSE 0)

\* torch: tensor[mask] = values, for a boolean mask with as many TRUE entries
\* as values has rows: the j-th TRUE row receives values[j].
masked_assign(tensor, mask, values) ==
    [i \in 1..Len(tensor) |-> IF mask[i] THEN values[CountTrue(mask, i)] ELSE tensor[i]]

-----------------------------------------------------------------------------
(* Bounds of the TD model *)

MaxBatch == 3       \* rows of a sampled batch

MaxSteps == 3       \* step counts passed to update_targets are 0..MaxSteps

MaxHardSteps == 2   \* target_network_hard_steps is 1..MaxHardSteps

\* hyperparameters["gamma"], a rational GammaNum / GammaDen in (0, 1]
GammaNum == 1

GammaDen == 2

\* hyperparameters["polyak_averaging_tau"], a rational TauNum / TauDen
TauNum == 1

TauDen == 2

\* the states an environment shows
States == {1, 2}

\* the values a freshly initialised or trained network predicts
NetValues == {0, GammaDen}

Rewards == {0, 1}

\* The weights of a value network, given by the state value it predicts for
\* every feature vector.
Weights == [States -> NetValues]

\* (state, action, reward, next_state, done): the fields the TD target reads
Transition ==
    [state : {1}, action : {0}, reward : Rewards,
     next_state : {None} \cup {Some(s) : s \in States}]

Batches == UNION {[1..n -> Transition] : n \in 1..MaxBatch}

-----------------------------------------------------------------------------
(* networks.py: the value estimator *)

\* Q.__init__ / V.__init__: with a target network, the constructor reads
\* self.layers_r, which create_split_net sets only under split_Bellman.
Constructible(hp) == hp.use_target_net => hp.split_Bellman

\* OptimizableNet.create_target_net: None without use_target_net, else a
\* freshly initialised clone (recreate_self), whose weights are its own.
create_target_net(hp, fresh) == IF hp.use_target_net THEN Some(fresh) ELSE None

\* ProcessState.forward / forward_next_state: the feature vector of a state
F_s(state) == state

forward_next_state(states) == [i \in 1..Len(states) |-> F_s(states[i])]

\* Q.predict_state_value / V.predict_state_value on one row of features
predict_state_value(weights, features) == weights[features]

\* the next states of the transitions that have one, last row first
collate_next_states_Reversed(transitions) ==
    LET non_final == SelectSeq(transitions, LAMBDA t : t.next_state # None)
    IN  IF non_final # <<>>
        THEN Some([j \in 1..Len(non_final) |->
                      non_final[Len(non_final) + 1 - j].next_state[1]])
        ELSE None

\* extract_batch: non_final_next_states = [s for s in batch.next_state if s
\* is not None], concatenated, or None when the list is empty
collate_next_states(transitions) ==
    LET non_final == SelectSeq(transitions, LAMBDA t : t.next_state # None)
    IN  IF non_final # <<>>
        THEN Some([j \in 1..Len(non_final) |-> non_final[j].next_state[1]])
        ELSE None

\* BasePolicy.extract_batch. A stored action is kept as the index of its
\* largest entry, which is what torch.argmax(action_batch, 1) returns.
extract_batch(transitions) ==
    [state |-> [i \in 1..Len(transitions) |-> transitions[i].state],
     action |-> [i \in 1..Len(transitions) |-> transitions[i].action],
     reward |-> [i \in 1..Len(transitions) |-> transitions[i].reward],
     non_final_mask |-> [i \in 1..Len(transitions) |-> transitions[i].next_state # None],
     non_final_next_states |-> collate_next_states(transitions),
     state_action_features |-> None,
     action_argmax |-> [i \in 1..Len(transitions) |-> transitions[i].action]]

\* TempDiffNet.calculate_next_state_values. value: the tensor; calls: how
\* often the target network was evaluated.
calculate_next_state_values_NoNoneCheck(target, non_final_next_state_features, non_final_mask) ==
    LET next_state_values == [i \in 1..Len(non_final_mask) |-> 0]
        features == IF non_final_next_state_features = None THEN <<>>
                    ELSE non_final_next_state_features[1]
    IN  IF target = None
        THEN [raised |-> TRUE, value |-> None, calls |-> 0]
        ELSE LET next_state_predictions ==
                     [j \in 1..Len(features) |-> predict_state_value(target[1], features[j])]
             IN  [raised |-> FALSE,
                  value |-> Some(masked_assign(next_state_values, non_final_mask,
                                               next_state_predictions)),
                  calls |-> 1]

calculate_next_state_values_Unmasked(target, non_final_next_state_features, non_final_mask) ==
    LET next_state_values == [i \in 1..Len(non_final_mask) |-> 0]
    IN  IF non_final_next_state_features = None
        THEN [raised |-> FALSE, value |-> Some(next_state_values), calls |-> 0]
        ELSE IF target = None
        THEN [raised |-> TRUE, value |-> None, calls |-> 0]
        ELSE LET next_state_predictions ==
                     [j \in 1..Len(non_final_next_state_features[1]) |->
                         predict_state_value(target[1], non_final_next_state_features[1][j])]
             IN  [raised |-> FALSE,
                  value |-> Some([i \in 1..Len(non_final_mask) |->
                                     next_state_predictions[
                                         IF CountTrue(non_final_mask, i) = 0 THEN 1
                                         ELSE CountTrue(non_final_mask, i)]]),
                  calls |-> 1]

calculate_next_state_values(target, non_final_next_state_features, non_final_mask) ==
    LET next_state_values == [i \in 1..Len(non_final_mask) |-> 0]
    IN  IF non_final_next_state_features = None
        THEN [raised |-> FALSE, value |-> Some(next_state_values), calls |-> 0]
        ELSE IF target = None
        \* self.target_net.predict_state_value on None: AttributeError
        THEN [raised |-> TRUE, value |-> None, calls |-> 0]
        ELSE LET next_state_predictions ==
                     [j \in 1..Len(non_final_next_state_features[1]) |->
                         predict_state_value(target[1], non_final_next_state_features[1][j])]
             IN  [raised |-> FALSE,
                  value |-> Some(masked_assign(next_state_values, non_final_mask,
                                               next_state_predictions)),
                  calls |-> 1]

\* Q.predict_next_state with use_QV = use_QVMAX = False
predict_next_state(target, non_final_next_state_features, non_final_mask) ==
    calculate_next_state_values(target, non_final_next_state_features, non_final_mask)

\* gamma * x in the arithmetic of the tensors: fixed point, rounded down
TimesGamma(x) == (x * GammaNum) \div GammaDen

\* TempDiffNet.calculate_updated_value_next_state: predictions: the cached
\* self.predictions_next_state; value: the TD target.
calculate_updated_value_next_state_AlwaysReward(hp, target, reward_batch, non_final_next_state_features, non_final_mask) ==
    LET p == predict_next_state(target, non_final_next_state_features, non_final_mask)
    IN  IF p.raised
        THEN [raised |-> TRUE, predictions |-> None, value |-> None, calls |-> p.calls]
        ELSE [raised |-> FALSE, predictions |-> p.value,
              value |-> Some([i \in 1..Len(reward_batch) |->
                                 TimesGamma(p.value[1][i]) + reward_batch[i]]),
              calls |-> p.calls]

calculate_updated_value_next_state(hp, target, reward_batch, non_final_next_state_features, non_final_mask) ==
    LET p == predict_next_state(target, non_final_next_state_features, non_final_mask)
    IN  IF p.raised
        THEN [raised |-> TRUE, predictions |-> None, value |-> None, calls |-> p.calls]
        ELSE [raised |-> FALSE, predictions |-> p.value,
              value |-> Some([i \in 1..Len(reward_batch) |->
                                 TimesGamma(p.value[1][i])
                                 + (IF ~hp.split_Bellman THEN reward_batch[i] ELSE 0)]),
              calls |-> p.calls]

\* util.hard_update(source, target): the target's weights become the source's
hard_update(source, target) == source

\* util.soft_update(source, target, tau): target <- (1 - tau) target + tau source
soft_update(source, target) ==
    [x \in DOMAIN target |-> ((TauDen - TauNum) * target[x] + TauNum * source[x]) \div TauDen]

\* OptimizableNet.update_targets(steps): sync: "soft", "hard" or "none"
update_targets_EveryStep(hp, live, target, steps) ==
    IF hp.use_polyak_averaging
    THEN IF target = None THEN [raised |-> TRUE, target |-> target, sync |-> "none"]
         ELSE [raised |-> FALSE, target |-> Some(soft_update(live, target[1])), sync |-> "soft"]
    ELSE IF target = None THEN [raised |-> TRUE, target |-> target, sync |-> "none"]
         ELSE [raised |-> FALSE, target |-> Some(hard_update(live, target[1])), sync |-> "hard"]

\* update_targets that under Polyak averaging still copies on the schedule
update_targets_CopyOnSchedule(hp, live, target, steps) ==
    IF target = None
    THEN [raised |-> hp.use_polyak_averaging \/ steps % hp.target_network_hard_steps = 0,
          target |-> target, sync |-> "none"]
    ELSE IF steps % hp.target_network_hard_steps = 0
    THEN [raised |-> FALSE, target |-> Some(hard_update(live, target[1])), sync |-> "hard"]
    ELSE IF hp.use_polyak_averaging
    THEN [raised |-> FALSE, target |-> Some(soft_update(live, target[1])), sync |-> "soft"]
    ELSE [raised |-> FALSE, target |-> target, sync |-> "none"]

update_targets(hp, live, target, steps) ==
    IF hp.use_polyak_averaging
    THEN IF target = None THEN [raised |-> TRUE, target |-> target, sync |-> "none"]
         ELSE [raised |-> FALSE, target |-> Some(soft_update(live, target[1])), sync |-> "soft"]
    ELSE IF steps % hp.target_network_hard_steps = 0
         THEN IF target = None THEN [raised |-> TRUE, target |-> target, sync |-> "none"]
              ELSE [raised |-> FALSE, target |-> Some(hard_update(live, target[1])), sync |-> "hard"]
         ELSE [raised |-> FALSE, target |-> target, sync |-> "none"]

-----------------------------------------------------------------------------
(* The MineRL action wrapper: HierarchicalActionWrapper (env_wrappers.py)   *)
(* Flat actions, branch numbers and option indices keep Python's 0-based    *)
(* values; rows of a batch and positions in a list are 1-based.             *)

MaxRows == 2        \* rows of a batch handed to a hierarchical policy

BINARY_KEYS == {"forward", "back", "left", "right", "jump", "sneak", "sprint", "attack"}

\* the item keys of _noop_template, in the template's order
ITEM_KEYS == <<"place", "equip", "craft", "nearbyCraft", "nearbySmelt">>

ItemKeySet == {ITEM_KEYS[i] : i \in 1..Len(ITEM_KEYS)}

\* env.action_space.spaces of the wrapped environment: the n of the Discrete
\* space of each item key, 0 for a key the environment does not have
\* (Treechop: none; Navigate: place; Obtain: all five, with the sizes the
\* comments of _noop_template list).
WrappedSpaces ==
    { [key \in ItemKeySet |-> 0],
      [key \in ItemKeySet |-> IF key = "place" THEN 2 ELSE 0],
      [key \in ItemKeySet |->
          CASE key = "place" -> 7 [] key = "equip" -> 7 [] key = "craft" -> 5
            [] key = "nearbyCraft" -> 8 [] OTHER -> 3] }

EnvNames == {"MineRLTreechop-v0", "MineRLObtainDiamond-v0"}

\* the arguments of HierarchicalActionWrapper.__init__
WrapperArguments ==
    [env_name : EnvNames, spaces : WrappedSpaces,
     always_keys : {{}, {"attack"}}, reverse_keys : {{}},
     exclude_keys : {{}, {"place"}, {"sneak"}},
     exclude_noop : BOOLEAN]

\* the keys of self.noop: the template's keys that the wrapped space has
NoopKeys(spaces) ==
    BINARY_KEYS \cup {"camera"} \cup {key \in ItemKeySet : spaces[key] > 0}

\* the ValueErrors of __init__
WrapperRaises(args) ==
    \/ Cardinality(args.always_keys \cup args.reverse_keys \cup args.exclude_keys)
         # Cardinality(args.always_keys) + Cardinality(args.reverse_keys)
           + Cardinality(args.exclude_keys)
    \/ \E key \in args.always_keys \cup args.reverse_keys : key \notin BINARY_KEYS
    \/ \E key \in args.exclude_keys : key \notin NoopKeys(args.spaces)

lateral_options(env_name) ==
    IF env_name = "MineRLTreechop-v0" THEN <<"none_lateral">>
    ELSE <<"left", "none_lateral", "right">>

straight_options(env_name) ==
    IF env_name = "MineRLTreechop-v0" THEN <<"forward">>
    ELSE <<"back", "none_straight", "forward">>

attack_options(env_name) ==
    IF env_name = "MineRLTreechop-v0" THEN <<"attack">>
    ELSE <<"none_attack", "attack">>

jump_options == <<"none_jump", "jump">>

camera_x_options == <<-10, 0, 10>>

camera_y_options == camera_x_options

\* "x_" + str(number) and "y_" + str(number)
camera_x_options_string == <<"x_-10", "x_0", "x_10">>

camera_y_options_string == <<"y_-10", "y_0", "y_10">>

\* self.noop: every key 0, the camera at rest, always/reverse keys pressed
noop_of(args) ==
    [key \in NoopKeys(args.spaces) |->
        IF key = "camera" THEN <<0, 0>>
        ELSE IF key \in args.always_keys \cup args.reverse_keys THEN 1 ELSE 0]

\* number of iterations of the six nested loops over the move options
num_move_ops(w) ==
    Len(w.lateral_options) * Len(w.straight_options) * Len(w.attack_options)
    * Len(w.jump_options) * Len(w.camera_x_options) * Len(w.camera_y_options)

Press(op, option) == IF option \in BINARY_KEYS THEN [op EXCEPT ![option] = 1] ELSE op

\* the op appended at iteration m (from 0) of the nested loops: lateral is
\* the outermost loop, camera_y the innermost
move_op(w, m) ==
    LET ny == Len(w.camera_y_options)
        nx == Len(w.camera_x_options)
        nj == Len(w.jump_options)
        na == Len(w.attack_options)
        ns == Len(w.straight_options)
        camera_y == w.camera_y_options[(m % ny) + 1]
        camera_x == w.camera_x_options[((m \div ny) % nx) + 1]
        jump     == w.jump_options[((m \div (ny * nx)) % nj) + 1]
        attack   == w.attack_options[((m \div (ny * nx * nj)) % na) + 1]
        straight == w.straight_options[((m \div (ny * nx * nj * na)) % ns) + 1]
        lateral  == w.lateral_options[(m \div (ny * nx * nj * na * ns)) + 1]
    IN  [Press(Press(Press(Press(w.noop, lateral), straight), attack), jump)
            EXCEPT !["camera"] = <<camera_x, camera_y>>]

\* the (key, a) of the item ops, in the order the loop over self.noop appends
\* them: keys in always_keys or exclude_keys are skipped, a runs over 1..n-1
RECURSIVE item_ops(_, _)
item_ops(w, i) ==
    IF i > Len(ITEM_KEYS) THEN <<>>
    ELSE LET key == ITEM_KEYS[i]
         IN  (IF key \in DOMAIN w.noop /\ key \notin w.always_keys
                     /\ key \notin w.exclude_keys
              THEN [a \in 1..(w.spaces[key] - 1) |-> <<key, a>>]
              ELSE <<>>) \o item_ops(w, i + 1)

\* self._actions after __init__: [noop] + move ops + item ops, the noop
\* deleted again when exclude_noop
actions_list(w) ==
    LET lead  == IF w.exclude_noop THEN 0 ELSE 1
        moves == num_move_ops(w)
        items == item_ops(w, 1)
    IN  [i \in 1..(lead + moves + Len(items)) |->
            IF i <= lead THEN w.noop
            ELSE IF i - lead <= moves THEN move_op(w, i - lead - 1)
            ELSE [w.noop EXCEPT ![items[i - lead - moves][1]] = items[i - lead - moves][2]]]

\* the op that __init__ enters into dict2id_set under idx: idx counts the
\* move ops and then the item ops from 0, whether or not the noop is kept
registered_op(w, idx) ==
    IF idx < num_move_ops(w) THEN move_op(w, idx)
    ELSE [w.noop EXCEPT ![item_ops(w, 1)[idx - num_move_ops(w) + 1][1]] =
                            item_ops(w, 1)[idx - num_move_ops(w) + 1][2]]

\* HierarchicalActionWrapper.__init__: the wrapper object
HierarchicalActionWrapper(args) ==
    LET w == [env_name |-> args.env_name, spaces |-> args.spaces,
              always_keys |-> args.always_keys, reverse_keys |-> args.reverse_keys,
              exclude_keys |-> args.exclude_keys, exclude_noop |-> args.exclude_noop,
              noop |-> noop_of(args),
              lateral_options |-> lateral_options(args.env_name),
              straight_options |-> straight_options(args.env_name),
              attack_options |-> attack_options(args.env_name),
              jump_options |-> jump_options,
              camera_x_options |-> camera_x_options,
              camera_y_options |-> camera_y_options,
              camera_x_options_string |-> camera_x_options_string,
              camera_y_options_string |-> camera_y_options_string,
              n |-> 0]
    IN  [w EXCEPT !.n = (IF w.exclude_noop THEN 0 ELSE 1) + num_move_ops(w)
                        + Len(item_ops(w, 1))]

\* HierarchicalActionWrapper.action
action(w, a) ==
    IF a \notin 0..(w.n - 1) THEN Raised ELSE Returned(actions_list(w)[a + 1])

\* |x|
Abs(x) == IF x < 0 THEN 0 - x ELSE x

\* map2closest_val(val, number_list) = min(number_list, key=lambda x:
\* abs(x - val)): the first entry of number_list closest to val
map2closest_val(val, number_list) ==
    number_list[CHOOSE i \in 1..Len(number_list) :
        /\ \A j \in 1..Len(number_list) :
               Abs(number_list[i] - val) <= Abs(number_list[j] - val)
        /\ \A j \in 1..(i - 1) :
               Abs(number_list[j] - val) > Abs(number_list[i] - val)]

\* the ops that __init__ enters into dict2id_set, by the idx of each entry
registered_ops(w) ==
    [idx \in 0..(num_move_ops(w) + Len(item_ops(w, 1)) - 1) |-> registered_op(w, idx)]

\* self.dict2id_set[key] for the idxs entered under key: the last one
\* entered, a KeyError without any
dict2id_set_lookup(idxs) ==
    IF idxs = {} THEN Raised
    ELSE Returned(CHOOSE idx \in idxs : \A other \in idxs : other <= idx)

\* self.dict2id_set[tuple(sorted(action_dict_copy.items()))]
dict2id_set(ops, action_dict) ==
    dict2id_set_lookup({idx \in DOMAIN ops : ops[idx] = action_dict})

\* HierarchicalActionWrapper.dict2idx
dict2idx(w, ops, action_dict) ==
    dict2id_set(ops, [action_dict EXCEPT !["camera"] =
                       <<map2closest_val(@[1], w.camera_x_options),
                         map2closest_val(@[2], w.camera_y_options)>>])

-----------------------------------------------------------------------------
(* The hierarchical policies (policies.py): construction and index mapping  *)

\* MineRLPolicy.__init__: num_move_actions from the option lists of the env
num_move_actions(w) ==
    Len(w.jump_options) * Len(w.attack_options) * Len(w.lateral_options)
    * Len(w.straight_options)
    * (Len(w.camera_x_options_string) * Len(w.camera_y_options_string))

\* MineRLPolicy.create_adjusted_action_policy: the new policy with its shift,
\* the shift of the next one, and action_mapping extended by num_actions
\* entries equal to counter
create_adjusted_action_policy(num_actions, shift, action_mapping, counter, move_policy) ==
    [new_policy |-> [shift |-> shift, num_actions |-> num_actions,
                     move_policy |-> move_policy],
     shift |-> shift + num_actions,
     action_mapping |-> action_mapping \o [i \in 1..num_actions |-> counter]]

\* the "if <key> in noop" blocks of MineRLHierarchicalPolicy.__init__, from
\* the i-th item key on
RECURSIVE create_item_policies(_, _, _)
create_item_policies(w, built, i) ==
    IF i > Len(ITEM_KEYS) THEN built
    ELSE LET key == ITEM_KEYS[i]
             num_choices == w.spaces[key] - 1
             r == create_adjusted_action_policy(num_choices, built.shift,
                      built.action_mapping, built.count, FALSE)
         IN  IF key \in DOMAIN w.noop
             THEN create_item_policies(w,
                      [lower_level_policies |-> Append(built.lower_level_policies, r.new_policy),
                       shift |-> r.shift, action_mapping |-> r.action_mapping,
                       count |-> built.count + 1], i + 1)
             ELSE create_item_policies(w, built, i + 1)

MineRLHierarchicalPolicy(w) ==
    LET mover == create_adjusted_action_policy(num_move_actions(w), 0, <<>>, 0, TRUE)
        built == create_item_policies(w,
                     [lower_level_policies |-> <<mover.new_policy>>,
                      shift |-> mover.shift, action_mapping |-> mover.action_mapping,
                      count |-> 1], 1)
    IN  [class |-> "MineRLHierarchicalPolicy",
         num_actions |-> w.n,
         action_mapping |-> built.action_mapping,
         lower_level_policies |-> built.lower_level_policies,
         decider |-> IF Len(built.lower_level_policies) > 1
                     THEN Some(create_adjusted_action_policy(
                                   Len(built.lower_level_policies), 0, <<>>, 0, FALSE).new_policy)
                     ELSE None]

\* the sizes MineRLObtainPolicy.__init__ passes for mover, placer, equipper,
\* crafter, nearby_crafter, nearby_smelter
ObtainSizes == <<9, 6, 7, 4, 7, 2>>

RECURSIVE create_obtain_policies(_, _)
create_obtain_policies(built, i) ==
    IF i > Len(ObtainSizes) THEN built
    ELSE LET r == create_adjusted_action_policy(ObtainSizes[i], built.shift,
                      built.action_mapping, i - 1, FALSE)
         IN  create_obtain_policies(
                 [lower_level_policies |-> Append(built.lower_level_policies, r.new_policy),
                  shift |-> r.shift, action_mapping |-> r.action_mapping], i + 1)

MineRLObtainPolicy(w) ==
    LET built == create_obtain_policies(
                     [lower_level_policies |-> <<>>, shift |-> 0, action_mapping |-> <<>>], 1)
    IN  [class |-> "MineRLObtainPolicy",
         num_actions |-> w.n,
         action_mapping |-> built.action_mapping,
         lower_level_policies |-> built.lower_level_policies,
         decider |-> Some(create_adjusted_action_policy(6, 0, <<>>, 0, FALSE).new_policy)]

\* action2high_low_level with the shift left out of the low-level index
action2high_low_level_NoShift(p, actions) ==
    IF \E r \in 1..Len(actions) : actions[r] >= Len(p.action_mapping)
    THEN [raised |-> TRUE, high_lvl |-> <<>>, low_lvl |-> <<>>]
    ELSE [raised |-> FALSE,
          high_lvl |-> [r \in 1..Len(actions) |-> p.action_mapping[actions[r] + 1]],
          low_lvl |-> [r \in 1..Len(actions) |-> actions[r]]]

\* action2high_low_level (the same code in both classes): per row, the
\* branch action_mapping[action] and action - shift of that branch; an action
\* past the end of action_mapping is an IndexError
action2high_low_level(p, actions) ==
    IF \E r \in 1..Len(actions) : actions[r] >= Len(p.action_mapping)
    THEN [raised |-> TRUE, high_lvl |-> <<>>, low_lvl |-> <<>>]
    ELSE [raised |-> FALSE,
          high_lvl |-> [r \in 1..Len(actions) |-> p.action_mapping[actions[r] + 1]],
          low_lvl |-> [r \in 1..Len(actions) |->
                          actions[r]
                          - p.lower_level_policies[p.action_mapping[actions[r] + 1] + 1].shift]]

-----------------------------------------------------------------------------
(* Batch routing: get_masks, apply_mask_to_transitions, optimize_networks   *)

\* the rows 1..n of a batch, ascending
RowsOf(n) == [r \in 1..n |-> r]

\* tensor[idx_mask]: the rows of tensor at the positions idx_mask, in order
index_rows(tensor, idx_mask) == [j \in 1..Len(idx_mask) |-> tensor[idx_mask[j]]]

\* get_masks with every row of the batch in the list of branch 0 as well
get_masks_FirstBranchAll(actions) ==
    [k \in 1..6 |-> IF k = 1 THEN RowsOf(Len(actions))
                    ELSE SelectSeq(RowsOf(Len(actions)), LAMBDA r : actions[r] = k - 1)]

\* get_masks: for each of the num_low_lvl = 6 branch numbers, the rows whose
\* action is that number, ascending
get_masks(actions) ==
    [k \in 1..6 |-> SelectSeq(RowsOf(Len(actions)), LAMBDA r : actions[r] = k - 1)]

\* the loop of apply_idx_mask_to_mask from mask_idx on; it breaks when
\* idx_mask_cpy runs empty
RECURSIVE apply_idx_mask_to_mask_from(_, _, _, _, _)
apply_idx_mask_to_mask_from(idx_mask_cpy, mask, mask_idx, non_final_idx, transformed_mask) ==
    IF mask_idx > Len(mask) THEN transformed_mask
    ELSE LET hit == mask_idx = idx_mask_cpy[1]
             transformed == IF mask[mask_idx] /\ hit
                            THEN Append(transformed_mask, non_final_idx)
                            ELSE transformed_mask
             next_non_final_idx == IF mask[mask_idx] THEN non_final_idx + 1
                                   ELSE non_final_idx
         IN  IF hit /\ Len(idx_mask_cpy) = 1 THEN transformed
             ELSE apply_idx_mask_to_mask_from(
                      IF hit THEN Tail(idx_mask_cpy) ELSE idx_mask_cpy,
                      mask, mask_idx + 1, next_non_final_idx, transformed)

\* apply_idx_mask_to_mask: the positions, in the compacted next-state
\* tensors, of the selected rows that are non-final
apply_idx_mask_to_mask(idx_mask, mask) ==
    apply_idx_mask_to_mask_from(idx_mask, mask, 1, 1, <<>>)

\* "Deal with the rest": a None stays None, every other tensor (or dict of
\* tensors) is indexed with idx_mask
mask_rest(transitions, idx_mask, key) ==
    IF transitions[key] = None THEN None ELSE index_rows(transitions[key], idx_mask)

\* the partial batch of apply_mask_to_transitions, given transformed_mask
masked_transitions(transitions, idx_mask, transformed_mask) ==
    [key \in DOMAIN transitions |->
        CASE key = "non_final_next_states" ->
                 Some(index_rows(transitions.non_final_next_states[1], transformed_mask))
          [] key = "non_final_next_state_features" ->
                 Some(index_rows(transitions.non_final_next_state_features[1],
                                 transformed_mask))
          [] key = "non_final_mask" ->
                 index_rows(transitions.non_final_mask, idx_mask)
          [] OTHER -> mask_rest(transitions, idx_mask, key)]

\* MineRLHierarchicalPolicy.apply_mask_to_transitions. Iterating over
\* non_final_next_states when it is None is a TypeError.
apply_mask_to_transitions(transitions, idx_mask) ==
    IF transitions.non_final_next_states = None THEN Raised
    ELSE Returned(masked_transitions(transitions, idx_mask,
                      apply_idx_mask_to_mask(idx_mask, transitions.non_final_mask)))

\* the dict comprehension of MineRLObtainPolicy.optimize_networks: every key
\* that is not None is indexed with idx_mask, the compacted next-state
\* tensors too (an IndexError when a row number is past their end)
obtain_partial_transitions(transitions, idx_mask) ==
    IF /\ transitions.non_final_next_states # None
       /\ \E j \in 1..Len(idx_mask) : idx_mask[j] > Len(transitions.non_final_next_states[1])
    THEN Raised
    ELSE Returned(
        [key \in DOMAIN transitions |->
            IF transitions[key] = None THEN None
            ELSE IF key \in {"non_final_next_states", "non_final_next_state_features"}
            THEN Some(index_rows(transitions[key][1], idx_mask))
            ELSE index_rows(transitions[key], idx_mask)])

\* transitions["action_argmax"][idx_mask] = low_level_actions[idx_mask]
assign_rows(tensor, idx_mask, values) ==
    [r \in 1..Len(tensor) |->
        IF \E j \in 1..Len(idx_mask) : idx_mask[j] = r THEN values[r] ELSE tensor[r]]

\* transitions["action_argmax"] = original_actions, the last statement of
\* the three optimize_networks
restore_action_argmax_Skipped(transitions, original_actions) == transitions

restore_action_argmax(transitions, original_actions) ==
    [transitions EXCEPT !.action_argmax = original_actions]

\* the end of an optimize_networks whose loop gave `trained`: a raise leaves
\* the dict as the loop left it, otherwise action_argmax is restored
restore_after(trained, original_actions) ==
    IF trained.raised THEN trained
    ELSE [trained EXCEPT !.transitions = restore_action_argmax(@, original_actions)]

-----------------------------------------------------------------------------
(* MineRLMovePolicy: one micro-policy per option list *)

NoOption == "None"    \* the None that replaces a "none_*" option

\* create_adjusted_action_policy(options) of MineRLMovePolicy: the options of
\* the new micro-policy, every option containing "none" replaced by None
micro_options(options) ==
    [idx \in 1..Len(options) |->
        IF options[idx] \in {"none_lateral", "none_straight", "none_attack", "none_jump"}
        THEN NoOption ELSE options[idx]]

\* self.policies: attacker, lateralus, straightener, jumper, camera_xer,
\* camera_yer
MovePolicies(w) ==
    <<micro_options(w.attack_options), micro_options(w.lateral_options),
      micro_options(w.straight_options), micro_options(w.jump_options),
      micro_options(w.camera_x_options_string), micro_options(w.camera_y_options_string)>>

\* float(option[2:]) of a camera option
camera_number(option) ==
    CASE option \in {"x_-10", "y_-10"} -> -10
      [] option \in {"x_0", "y_0"} -> 0
      [] OTHER -> 10

\* the scan of get_action_idxs_for_policy over policy.options from idx on:
\* the index of the first option the action dict has set, else the index of
\* the last None seen before the end, else None
RECURSIVE scan_options(_, _, _, _)
scan_options(options, action_dict, idx, none_idx) ==
    IF idx > Len(options) THEN none_idx
    ELSE LET option == options[idx]
         IN  IF option = NoOption
             THEN scan_options(options, action_dict, idx + 1, Some(idx - 1))
             ELSE IF option \in {"x_-10", "x_0", "x_10"}
             THEN IF action_dict["camera"][1] = camera_number(option) THEN Some(idx - 1)
                  ELSE scan_options(options, action_dict, idx + 1, none_idx)
             ELSE IF option \in {"y_-10", "y_0", "y_10"}
             THEN IF action_dict["camera"][2] = camera_number(option) THEN Some(idx - 1)
                  ELSE scan_options(options, action_dict, idx + 1, none_idx)
             ELSE IF action_dict[option] = 1 THEN Some(idx - 1)
                  ELSE scan_options(options, action_dict, idx + 1, none_idx)

\* action_idxs[dict_idx] = action_idx for every dict: storing None into the
\* index tensor is a TypeError
store_action_idxs(found) ==
    IF \E d \in 1..Len(found) : found[d] = None THEN Raised
    ELSE Returned([d \in 1..Len(found) |-> found[d][1]])

\* MineRLMovePolicy.get_action_idxs_for_policy
get_action_idxs_for_policy(options, action_dicts) ==
    store_action_idxs([d \in 1..Len(action_dicts) |->
                          scan_options(options, action_dicts[d], 1, None)])

\* apply_options on one noop, one option: None is skipped, a camera option
\* sets its axis to int(option[2:]), any other option presses its key
apply_option(noop, option) ==
    IF option = NoOption THEN noop
    ELSE IF option \in {"x_-10", "x_0", "x_10"}
    THEN [noop EXCEPT !["camera"][1] = camera_number(option)]
    ELSE IF option \in {"y_-10", "y_0", "y_10"}
    THEN [noop EXCEPT !["camera"][2] = camera_number(option)]
    ELSE [noop EXCEPT ![option] = 1]

\* the loop of apply_options over options_to_apply from the k-th option on
RECURSIVE apply_options_from(_, _, _)
apply_options_from(options_to_apply, noop, k) ==
    IF k > Len(options_to_apply) THEN noop
    ELSE apply_options_from(options_to_apply, apply_option(noop, options_to_apply[k]), k + 1)

\* MineRLMovePolicy.apply_options: options[p][idx] is the option of
\* micro-policy p for the idx-th noop
apply_options(options, noops) ==
    [idx \in 1..Len(noops) |->
        apply_options_from([p \in 1..Len(options) |-> options[p][idx]], noops[idx], 1)]

\* HierarchicalActionWrapper.dicts2idxs: dict2idx of every dict, the first
\* KeyError ending the call
dicts2idxs(w, ops, action_dicts) ==
    IF \E d \in 1..Len(action_dicts) : dict2idx(w, ops, action_dicts[d]).raised
    THEN Raised
    ELSE Returned([d \in 1..Len(action_dicts) |-> dict2idx(w, ops, action_dicts[d]).value])

\* the options the micro-policies return in choose_action when each policy
\* p picks the index action_idxs[p][d] for row d: policy.options[idx]
chosen_options(w, action_idxs) ==
    [p \in 1..Len(MovePolicies(w)) |->
        [d \in 1..Len(action_idxs[p]) |-> MovePolicies(w)[p][action_idxs[p][d] + 1]]]

\* the tail of MineRLMovePolicy.choose_action from the options on:
\* apply_options on fresh copies of the noop template, then env.dicts2idxs
recompose(w, ops, action_idxs) ==
    dicts2idxs(w, ops,
        apply_options(chosen_options(w, action_idxs),
                      [d \in 1..Len(action_idxs[1]) |-> w.noop]))

\* the indices optimize_networks trains the micro-policies on for the stored
\* actions, recomposed as choose_action composes the indices it selects
decompose_recompose(w, ops, action_dicts) ==
    IF \E p \in 1..Len(MovePolicies(w)) :
           get_action_idxs_for_policy(MovePolicies(w)[p], action_dicts).raised
    THEN Raised
    ELSE recompose(w, ops,
             [p \in 1..Len(MovePolicies(w)) |->
                 get_action_idxs_for_policy(MovePolicies(w)[p], action_dicts).value])

\* the loop over self.policies from the i-th micro-policy on:
\* move_optimize_from computes the indices for policy i, move_train_policy
\* rebinds action_argmax to them and trains the policy (a base policy, taken
\* to return)
RECURSIVE move_optimize_from(_, _, _, _, _)
RECURSIVE move_train_policy(_, _, _, _, _, _)
move_train_policy(w, transitions, action_dicts, i, invocations, action_idxs) ==
    IF action_idxs.raised
    THEN [raised |-> TRUE, invocations |-> invocations, transitions |-> transitions]
    ELSE move_optimize_from(w, [transitions EXCEPT !.action_argmax = action_idxs.value],
                            action_dicts, i + 1, Append(invocations, action_idxs.value))

move_optimize_from(w, transitions, action_dicts, i, invocations) ==
    IF i > Len(MovePolicies(w))
    THEN [raised |-> FALSE, invocations |-> invocations, transitions |-> transitions]
    ELSE move_train_policy(w, transitions, action_dicts, i, invocations,
             get_action_idxs_for_policy(MovePolicies(w)[i], action_dicts))

\* MineRLMovePolicy.optimize_networks, given the action dicts env.action
\* returned for the rows (a ValueError for an index outside the env's space)
move_optimize_dicts(w, transitions, dicts) ==
    IF \E r \in 1..Len(dicts) : dicts[r].raised
    THEN [raised |-> TRUE, invocations |-> <<>>, transitions |-> transitions]
    ELSE restore_after(
             move_optimize_from(w, transitions, [r \in 1..Len(dicts) |-> dicts[r].value],
                                1, <<>>),
             transitions.action_argmax)

\* MineRLMovePolicy.optimize_networks. transitions: the dict as the call
\* leaves it; invocations: the action_argmax each micro-policy was trained on.
move_optimize_networks(w, transitions) ==
    move_optimize_dicts(w, transitions,
        [r \in 1..Len(transitions.action_argmax) |-> action(w, transitions.action_argmax[r])])

-----------------------------------------------------------------------------
(* optimize_networks and choose_action of the hierarchical policies *)

\* BasePolicy.optimize up to the call of optimize_networks: the batch dict
\* with the next-state features added
optimize_transitions(sample) ==
    LET transitions == extract_batch(sample)
    IN  [state |-> transitions.state,
         action |-> transitions.action,
         reward |-> transitions.reward,
         non_final_next_states |-> transitions.non_final_next_states,
         non_final_mask |-> transitions.non_final_mask,
         state_action_features |-> transitions.state_action_features,
         action_argmax |-> transitions.action_argmax,
         non_final_next_state_features |->
             IF transitions.non_final_next_states # None
             THEN Some(forward_next_state(transitions.non_final_next_states[1]))
             ELSE None]

\* what one pass of the loop over mask_list leaves: the call of the branch
\* with the dict it was handed, and the caller's dict
branch_outcome(assigned, partial_transitions, policy_idx, trained) ==
    [raised |-> trained.raised,
     invocations |-> <<[callee |-> "lower_level_policies", policy_idx |-> policy_idx - 1,
                        transitions |-> partial_transitions,
                        returned |-> trained.transitions,
                        raised |-> trained.raised, micro |-> trained.invocations]>>,
     transitions |-> assigned]

\* policy.optimize_networks(partial_transitions) of branch policy_idx. A base
\* policy's optimize_networks reads and writes no action_argmax and is taken
\* to return; the mover of a MineRLHierarchicalPolicy is a MineRLMovePolicy.
train_on_partial(w, p, assigned, partial_transitions, policy_idx) ==
    IF partial_transitions.raised
    THEN [raised |-> TRUE, invocations |-> <<>>, transitions |-> assigned]
    ELSE branch_outcome(assigned, partial_transitions.value, policy_idx,
             IF p.lower_level_policies[policy_idx].move_policy
             THEN move_optimize_networks(w, partial_transitions.value)
             ELSE [raised |-> FALSE, invocations |-> <<>>,
                   transitions |-> partial_transitions.value])

\* the partial batch of the rows idx_mask, built as the policy's class does
train_assigned(w, p, assigned, idx_mask, policy_idx) ==
    train_on_partial(w, p, assigned,
        IF p.class = "MineRLObtainPolicy"
        THEN obtain_partial_transitions(assigned, idx_mask)
        ELSE apply_mask_to_transitions(assigned, idx_mask),
        policy_idx)

\* the body of the loop over mask_list for a branch with rows: the rows'
\* action_argmax become their low-level indices, the partial batch is built
\* and the branch is trained on it
train_branch(w, p, transitions, low_level_actions, idx_mask, policy_idx) ==
    train_assigned(w, p,
        [transitions EXCEPT !.action_argmax = assign_rows(@, idx_mask, low_level_actions)],
        idx_mask, policy_idx)

\* the loop over mask_list from branch policy_idx on: a branch without rows
\* is skipped, a raise ends the loop
RECURSIVE train_low_level(_, _, _, _, _, _)
RECURSIVE train_next_level(_, _, _, _, _, _, _)
train_next_level(w, p, low_level_actions, mask_list, policy_idx, invocations, step) ==
    IF step.raised
    THEN [step EXCEPT !.invocations = invocations \o @]
    ELSE train_low_level(w, p, low_level_actions, mask_list, policy_idx + 1,
                         [step EXCEPT !.invocations = invocations \o @])

train_low_level(w, p, low_level_actions, mask_list, policy_idx, done) ==
    IF policy_idx > Len(mask_list) THEN done
    ELSE IF mask_list[policy_idx] = <<>>
    THEN train_low_level(w, p, low_level_actions, mask_list, policy_idx + 1, done)
    ELSE train_next_level(w, p, low_level_actions, mask_list, policy_idx, done.invocations,
             train_branch(w, p, done.transitions, low_level_actions,
                          mask_list[policy_idx], policy_idx))

\* error[idx_mask] += policy.optimize_networks(partial_transitions) for the
\* call c of a branch: row idx_mask[j] of error receives row j of what the
\* branch returned, its error on the j-th row of the partial batch
add_error_at(error, idx_mask, c) ==
    [r \in 1..Len(error) |->
        error[r] \o
        [x \in 1..Len(SelectSeq(RowsOf(Len(idx_mask)), LAMBDA j : idx_mask[j] = r)) |->
            [callee |-> c.callee, policy_idx |-> c.policy_idx,
             state |-> c.transitions.state[
                 SelectSeq(RowsOf(Len(idx_mask)), LAMBDA j : idx_mask[j] = r)[x]]]]]

\* the error tensor after the calls from the i-th on: row r lists what was
\* added to error[r], in order. error += self.decider.optimize_networks(
\* transitions) adds to every row the decider's error on that row.
RECURSIVE add_errors(_, _, _, _)
add_errors(error, mask_list, invocations, i) ==
    IF i > Len(invocations) THEN error
    ELSE add_errors(
             IF invocations[i].callee = "decider"
             THEN add_error_at(error, RowsOf(Len(error)), invocations[i])
             ELSE add_error_at(error, mask_list[invocations[i].policy_idx + 1],
                               invocations[i]),
             mask_list, invocations, i + 1)

\* what optimize_networks leaves and returns: mask_list, the lists of
\* get_masks; error, the per-row tensor returned (None for a call that raised)
returned_error(trained, mask_list) ==
    [raised |-> trained.raised, invocations |-> trained.invocations,
     transitions |-> trained.transitions, mask_list |-> mask_list,
     error |-> IF trained.raised THEN None
               ELSE Some(add_errors([r \in 1..Len(trained.transitions.state) |-> <<>>],
                                    mask_list, trained.invocations, 1))]

\* the decider's call and the loop over the branches, given the high- and
\* low-level actions of the rows. len(transitions, device=...) in the
\* "decider is None" branch is a TypeError.
optimize_levels(w, p, transitions, levels) ==
    IF levels.raised \/ p.decider = None
    THEN [raised |-> TRUE, invocations |-> <<>>, transitions |-> transitions,
          mask_list |-> <<>>, error |-> None]
    ELSE returned_error(restore_after(
             train_low_level(w, p, levels.low_lvl, get_masks(levels.high_lvl), 1,
                 [raised |-> FALSE,
                  invocations |->
                      <<[callee |-> "decider", policy_idx |-> -1,
                         transitions |-> [transitions EXCEPT !.action_argmax = levels.high_lvl],
                         returned |-> [transitions EXCEPT !.action_argmax = levels.high_lvl],
                         raised |-> FALSE, micro |-> <<>>]>>,
                  transitions |-> [transitions EXCEPT !.action_argmax = levels.high_lvl]]),
             transitions.action_argmax),
             get_masks(levels.high_lvl))

\* MineRLHierarchicalPolicy.optimize_networks and
\* MineRLObtainPolicy.optimize_networks (which has no "decider is None"
\* branch; its decider always exists). invocations: the sub-policy calls in
\* order, each with the dict it was handed; transitions: the caller's dict
\* as the call leaves it.
optimize_networks(w, p, transitions) ==
    optimize_levels(w, p, transitions, action2high_low_level(p, transitions.action_argmax))

\* the loop of choose_action over the masks from branch policy_idx on.
\* action_q_vals[r][k]: what row r of the flat output holds in the slice of
\* branch k, None for zeros, else the rows of the batch the values written
\* there were computed from. low_lvl_action[0] of a base policy is its output
\* for the first row; MineRLMovePolicy.choose_action returns one row that
\* marks the move of every row. A slice past the end of the flat vector is a
\* size mismatch.
RECURSIVE choose_low_level(_, _, _, _, _)
choose_low_level(p, masks, n_rows, policy_idx, action_q_vals) ==
    IF policy_idx > Len(masks) THEN Returned(action_q_vals)
    ELSE IF masks[policy_idx] = <<>>
    THEN choose_low_level(p, masks, n_rows, policy_idx + 1, action_q_vals)
    ELSE LET lower == p.lower_level_policies[policy_idx]
             low_lvl_action_0 == IF lower.move_policy THEN 1..n_rows ELSE {1}
         IN  IF lower.shift + lower.num_actions > p.num_actions THEN Raised
             ELSE choose_low_level(p, masks, n_rows, policy_idx + 1,
                      [action_q_vals EXCEPT ![1][policy_idx] = Some(low_lvl_action_0)])

\* choose_action (the same loop in both classes); high_level_actions is the
\* argmax of the decider's output per row. A missing decider is an
\* AttributeError.
choose_action(p, high_level_actions) ==
    IF p.decider = None THEN Raised
    ELSE choose_low_level(p, get_masks(high_level_actions), Len(high_level_actions), 1,
             [r \in 1..Len(high_level_actions) |->
                 [k \in 1..Len(p.lower_level_policies) |-> None]])

\* the index, from 0, of the first entry of values equal to largest
first_index_of(values, largest) ==
    (CHOOSE i \in 1..Len(values) :
        values[i] = largest /\ \A j \in 1..(i - 1) : values[j] # largest) - 1

\* torch.argmax of a flat vector: the index of the first of its largest entries
torch_argmax(values) ==
    first_index_of(values,
        CHOOSE v \in {values[i] : i \in 1..Len(values)} :
            \A j \in 1..Len(values) : values[j] <= v)

\* choose_action on a single-row state, with the values: the zero vector of
\* num_actions entries with low_lvl_action[0], the output of the branch the
\* decider chose, written to the slice from the branch's shift on
choose_action_q_vals(p, high_level_action, low_lvl_action) ==
    IF p.decider = None THEN Raised
    ELSE IF p.lower_level_policies[high_level_action + 1].shift + Len(low_lvl_action)
            > p.num_actions
    THEN Raised
    ELSE Returned([a \in 1..p.num_actions |->
             IF /\ a > p.lower_level_policies[high_level_action + 1].shift
                /\ a <= p.lower_level_policies[high_level_action + 1].shift
                        + Len(low_lvl_action)
             THEN low_lvl_action[a - p.lower_level_policies[high_level_action + 1].shift]
             ELSE 0])

\* BasePolicy.exploit in a discrete env: the argmax of choose_action's output
exploit_argmax(raw_action) ==
    IF raw_action.raised THEN Raised ELSE Returned(torch_argmax(raw_action.value))

exploit(p, high_level_action, low_lvl_action) ==
    exploit_argmax(choose_action_q_vals(p, high_level_action, low_lvl_action))

\* update_targets of MineRLHierarchicalPolicy and of MineRLObtainPolicy: the
\* decider, then every lower-level policy; the policies updated, by number
\* (-1: the decider). A missing decider is an AttributeError.
hierarchical_update_targets(p) ==
    IF p.decider = None THEN Raised
    ELSE Returned(<<-1>> \o [k \in 1..Len(p.lower_level_policies) |-> k - 1])

\* no call on the hierarchical policy in progress
NoHCall == [op |-> "init", input |-> None, result |-> None]

\* no call on the agent's policy in progress
NoACall == [op |-> "init", input |-> None, result |-> None]

-----------------------------------------------------------------------------
(* The estimator of a Q_Policy as a state machine *)

Hyperparameters ==
    {hp \in [use_target_net : BOOLEAN, split_Bellman : BOOLEAN,
             use_polyak_averaging : BOOLEAN,
             target_network_hard_steps : 1..MaxHardSteps] : Constructible(hp)}

NoCall ==
    [op |-> "init", raised |-> FALSE, batch |-> <<>>, non_final_mask |-> <<>>,
     non_final_next_states |-> None, reward |-> <<>>, predictions |-> None, expected |-> None, calls |-> 0,
     steps |-> 0, sync |-> "none", old_target |-> None]

\* Q.__init__ (estimator and target network built from the hyperparameters)
TDInit ==
    /\ hyperparameters \in Hyperparameters
    /\ live_net \in Weights
    /\ \E fresh \in Weights : target_net = create_target_net(hyperparameters, fresh)
    /\ td_call = NoCall
    /\ env = None
    /\ policy = None
    /\ h_call = NoHCall
    /\ agent = None
    /\ memory = <<>>
    /\ a_call = NoACall

\* BasePolicy.optimize of a Q_Policy on a sampled batch: extract_batch, the
\* feature extraction, then Q.optimize (train_critic). The gradient step
\* moves the live weights; a raise leaves them.
OptimizeOn(sample) ==
    LET transitions == extract_batch(sample)
        non_final_next_state_features ==
            IF transitions.non_final_next_states # None
            THEN Some(forward_next_state(transitions.non_final_next_states[1]))
            ELSE None
        r == calculate_updated_value_next_state(hyperparameters, target_net,
                 transitions.reward, non_final_next_state_features,
                 transitions.non_final_mask)
    IN  /\ td_call' = [op |-> "optimize", raised |-> r.raised, batch |-> sample,
                       non_final_mask |-> transitions.non_final_mask,
                       non_final_next_states |-> transitions.non_final_next_states,
                       reward |-> transitions.reward,
                       predictions |-> r.predictions, expected |-> r.value,
                       calls |-> r.calls, steps |-> 0, sync |-> "none",
                       old_target |-> target_net]
        /\ live_net' \in (IF r.raised THEN {live_net} ELSE Weights)
        /\ UNCHANGED <<hyperparameters, target_net, h_vars, a_vars>>

\* BasePolicy.optimize, on any batch get_transitions can sample
Optimize ==
    /\ td_call.op = "init"
    /\ \E sample \in Batches : OptimizeOn(sample)

\* Q.update_targets(steps)
UpdateTargetsAt(steps) ==
    LET r == update_targets(hyperparameters, live_net, target_net, steps)
    IN  /\ target_net' = r.target
        /\ td_call' = [NoCall EXCEPT !.op = "update_targets", !.raised = r.raised,
                                     !.steps = steps, !.sync = r.sync,
                                     !.old_target = target_net]
        /\ UNCHANGED <<hyperparameters, live_net, h_vars, a_vars>>

\* Q.update_targets, at any step count
UpdateTargets ==
    /\ td_call.op = "init"
    /\ \E steps \in 0..MaxSteps : UpdateTargetsAt(steps)

\* The caller is done with the result of the last call; the estimator keeps
\* its weights for the next call.
TDReturn ==
    /\ td_call.op # "init"
    /\ td_call' = NoCall
    /\ UNCHANGED <<hyperparameters, live_net, target_net, h_vars, a_vars>>

TDNext ==
    \/ Optimize
    \/ UpdateTargets
    \/ TDReturn

SpecTD == TDInit /\ [][TDNext]_vars

-----------------------------------------------------------------------------
(* Claims about the value estimator, checked under SpecTD *)

OptimizeReturned == td_call.op = "optimize" /\ ~td_call.raised

AllTerminal(mask) == \A i \in 1..Len(mask) : ~mask[i]

\* C1: in the tensor calculate_next_state_values returns, every row whose
\* non_final_mask entry is false is exactly 0, whatever the target network
\* predicts for the other rows.
C1_TerminalRowsAreZero ==
    OptimizeReturned =>
        \A i \in 1..Len(td_call.batch) :
            td_call.batch[i].next_state = None => td_call.predictions[1][i] = 0

C1_Witness ==
    /\ OptimizeReturned
    /\ \E i, j \in 1..Len(td_call.batch) :
           /\ td_call.batch[i].next_state = None
           /\ td_call.batch[j].next_state # None
           /\ td_call.predictions[1][j] # 0

\* C2: without a target network, without split, a Q_Policy optimization of
\* three transitions whose middle one is terminal computes the next-state
\* values without raising, and the terminal row's value is 0.
C2_NoTargetNetScenario ==
    ( /\ td_call.op = "optimize"
      /\ ~hyperparameters.use_target_net
      /\ ~hyperparameters.split_Bellman
      /\ Len(td_call.batch) = 3
      /\ td_call.batch[1].next_state # None
      /\ td_call.batch[2].next_state = None
      /\ td_call.batch[3].next_state # None )
    => (~td_call.raised /\ td_call.predictions[1][2] = 0)

\* C3: on a batch whose rows are all terminal, calculate_next_state_values
\* raises nothing, evaluates no network and returns one zero per batch row.
C3_AllTerminalBatch ==
    (td_call.op = "optimize" /\ \A i \in 1..Len(td_call.batch) : td_call.batch[i].next_state = None)
    => /\ ~td_call.raised
       /\ td_call.calls = 0
       /\ td_call.predictions = Some([i \in 1..Len(td_call.batch) |-> 0])

C3_Witness ==
    /\ td_call.op = "optimize"
    /\ Len(td_call.batch) = 2
    /\ \A i \in 1..Len(td_call.batch) : td_call.batch[i].next_state = None
    /\ target_net # None
    /\ \E s \in States : target_net[1][s] # 0
    /\ td_call.predictions = Some(<<0, 0>>)

\* C4: the TD target is gamma * next_state_value + reward without split
\* Bellman and gamma * next_state_value with it, in every row.
C4_SplitBellmanTarget ==
    OptimizeReturned =>
        \A i \in 1..Len(td_call.batch) :
            LET discounted == td_call.expected[1][i]
                              - (IF hyperparameters.split_Bellman THEN 0
                                 ELSE td_call.batch[i].reward)
            IN  /\ GammaDen * discounted <= GammaNum * td_call.predictions[1][i]
                /\ GammaNum * td_call.predictions[1][i] < GammaDen * (discounted + 1)

C4_Witness ==
    /\ OptimizeReturned
    /\ hyperparameters.split_Bellman
    /\ \E i \in 1..Len(td_call.batch) :
           /\ td_call.batch[i].reward # 0
           /\ td_call.predictions[1][i] = GammaDen
           /\ td_call.expected[1][i] = GammaNum

\* C5: without Polyak averaging, update_targets(t) on an estimator with a
\* target network makes the target equal to the live network when
\* t % target_network_hard_steps = 0 and leaves the target as it was at
\* every other t.
C5_HardUpdate ==
    ( /\ td_call.op = "update_targets"
      /\ ~hyperparameters.use_polyak_averaging
      /\ td_call.old_target # None )
    => IF td_call.steps % hyperparameters.target_network_hard_steps = 0
       THEN ~td_call.raised /\ target_net = Some(live_net)
       ELSE ~td_call.raised /\ target_net = td_call.old_target

C5_Witness ==
    /\ td_call.op = "update_targets"
    /\ ~hyperparameters.use_polyak_averaging
    /\ hyperparameters.target_network_hard_steps = 2
    /\ td_call.steps = 2
    /\ td_call.old_target # None
    /\ td_call.old_target # Some(live_net)
    /\ target_net = Some(live_net)

-----------------------------------------------------------------------------
(* A hierarchical policy on a wrapped environment as a state machine *)

\* the wrappers __init__ builds without a ValueError
Wrappers == {HierarchicalActionWrapper(args) : args \in {a \in WrapperArguments : ~WrapperRaises(a)}}

\* self.dict2id_set of each of these wrappers
dict2id_sets == [w \in Wrappers |-> registered_ops(w)]

\* the policy classes built on a wrapped env: MineRLObtainPolicy is the
\* policy of the Obtain environments
PoliciesOn(w) ==
    {MineRLHierarchicalPolicy(w)}
    \cup (IF w.env_name = "MineRLObtainDiamond-v0" THEN {MineRLObtainPolicy(w)} ELSE {})

HInit ==
    /\ env \in Wrappers
    /\ policy \in PoliciesOn(env)
    /\ h_call = NoHCall
    /\ agent = None
    /\ memory = <<>>
    /\ a_call = NoACall
    /\ hyperparameters = None
    /\ live_net = None
    /\ target_net = None
    /\ td_call = NoCall

\* the flat actions a call can be handed: those of the env's Discrete(n) and
\* those action_mapping has an entry for
FlatActions == 0..((IF env.n > Len(policy.action_mapping) THEN env.n
                    ELSE Len(policy.action_mapping)) - 1)

\* policy.action2high_low_level on one stored action
Decode ==
    /\ h_call.op = "init"
    /\ \E a \in FlatActions :
           h_call' = [op |-> "action2high_low_level", input |-> <<a>>,
                      result |-> action2high_low_level(policy, <<a>>)]
    /\ UNCHANGED <<env, policy, td_vars, a_vars>>

\* env.dict2idx on the structured action of a flat action of the env
Dict2Idx ==
    /\ h_call.op = "init"
    /\ \E a \in 0..(env.n - 1) :
           h_call' = [op |-> "dict2idx", input |-> <<a>>,
                      result |-> dict2idx(env, dict2id_sets[env], action(env, a).value)]
    /\ UNCHANGED <<env, policy, td_vars, a_vars>>

\* the caller is done with the result of the last call
HReturn ==
    /\ h_call.op # "init"
    /\ h_call' = NoHCall
    /\ UNCHANGED <<env, policy, td_vars, a_vars>>

\* the last flat action of branch k
LastActionOf(k) ==
    policy.lower_level_policies[k].shift + policy.lower_level_policies[k].num_actions - 1

\* the stored actions of the sampled batches: the first flat action, the
\* last one of every branch and the last one of the env
SampleActions ==
    {0, env.n - 1} \cup {LastActionOf(k) : k \in 1..Len(policy.lower_level_policies)}

\* a sampled batch: row r holds state r, and next state r unless terminal
HBatches ==
    UNION {{[r \in 1..n |-> [state |-> r, action |-> rows[r].action, reward |-> 0,
                             next_state |-> IF rows[r].non_final THEN Some(r) ELSE None]]
            : rows \in [1..n -> [action : SampleActions, non_final : BOOLEAN]]}
           : n \in 1..MaxRows}

\* BasePolicy.optimize on a sampled batch: policy.optimize_networks
OptimizeNetworks ==
    /\ h_call.op = "init"
    /\ \E sample \in HBatches :
           h_call' = [op |-> "optimize_networks", input |-> optimize_transitions(sample),
                      result |-> optimize_networks(env, policy, optimize_transitions(sample))]
    /\ UNCHANGED <<env, policy, td_vars, a_vars>>

\* the row lists get_masks can give for a batch of n rows: ascending and not
\* empty
IdxMasks(n) ==
    {SelectSeq(RowsOf(n), LAMBDA r : r \in rows) : rows \in (SUBSET (1..n)) \ {{}}}

\* apply_mask_to_transitions on the dict of a sampled batch (the stored
\* actions, which it only indexes, are the first flat action) and a row list
ApplyMaskToTransitions ==
    /\ h_call.op = "init"
    /\ policy.class = "MineRLHierarchicalPolicy"
    /\ \E sample \in {b \in HBatches : \A r \in 1..Len(b) : b[r].action = 0} :
           \E idx_mask \in IdxMasks(Len(sample)) :
               h_call' = [op |-> "apply_mask_to_transitions",
                          input |-> [transitions |-> optimize_transitions(sample),
                                     idx_mask |-> idx_mask],
                          result |-> apply_mask_to_transitions(
                                         optimize_transitions(sample), idx_mask)]
    /\ UNCHANGED <<env, policy, td_vars, a_vars>>

\* the decider's choices for a batch of states: per row, the branch at
\* which its output has its largest entry
HighLevelChoices ==
    UNION {[1..n -> 0..(Len(policy.lower_level_policies) - 1)] : n \in 1..MaxRows}

\* policy.choose_action on a batch of states
ChooseAction ==
    /\ h_call.op = "init"
    /\ \E high_level_actions \in HighLevelChoices :
           h_call' = [op |-> "choose_action", input |-> high_level_actions,
                      result |-> choose_action(policy, high_level_actions)]
    /\ UNCHANGED <<env, policy, td_vars, a_vars>>

\* the outputs of a branch for one state. The mover marks one move with a 1
\* among zeros; a base policy returns the values of its actor (Q-values for
\* a Q_Policy): all of one sign or zero, or one entry above the others.
BranchOutputs(lower) ==
    IF lower.move_policy
    THEN {[i \in 1..lower.num_actions |-> IF i = j THEN 1 ELSE 0]
          : j \in {1, lower.num_actions}}
    ELSE {[i \in 1..lower.num_actions |-> v] : v \in {-1, 0, 1}}
         \cup {[i \in 1..lower.num_actions |-> IF i = j THEN v ELSE -2]
               : j \in {1, lower.num_actions}, v \in {-1, 1}}

\* policy.exploit on one state, the decider choosing any branch
Exploit ==
    /\ h_call.op = "init"
    /\ \E k \in 0..(Len(policy.lower_level_policies) - 1) :
           \E low_lvl_action \in BranchOutputs(policy.lower_level_policies[k + 1]) :
               h_call' = [op |-> "exploit",
                          input |-> [high_level_action |-> k,
                                     low_lvl_action |-> low_lvl_action],
                          result |-> exploit(policy, k, low_lvl_action)]
    /\ UNCHANGED <<env, policy, td_vars, a_vars>>

\* policy.update_targets(n_steps)
HUpdateTargets ==
    /\ h_call.op = "init"
    /\ h_call' = [op |-> "update_targets", input |-> None,
                  result |-> hierarchical_update_targets(policy)]
    /\ UNCHANGED <<env, policy, td_vars, a_vars>>

\* the mover of the policy on one stored move action: the option indices
\* its optimize_networks derives from env.action(a), and the flat index its
\* choose_action would mark for these indices
MoveRoundTrip ==
    /\ h_call.op = "init"
    /\ \E k \in 1..Len(policy.lower_level_policies) :
           /\ policy.lower_level_policies[k].move_policy
           /\ \E a \in policy.lower_level_policies[k].shift
                       ..(policy.lower_level_policies[k].shift
                          + policy.lower_level_policies[k].num_actions - 1) :
                  h_call' = [op |-> "move_round_trip", input |-> <<a>>,
                             result |-> decompose_recompose(env, dict2id_sets[env],
                                            <<action(env, a).value>>)]
    /\ UNCHANGED <<env, policy, td_vars, a_vars>>

HNext ==
    \/ Decode
    \/ MoveRoundTrip
    \/ Exploit
    \/ HUpdateTargets
    \/ Dict2Idx
    \/ OptimizeNetworks
    \/ ApplyMaskToTransitions
    \/ ChooseAction
    \/ HReturn

SpecHier == HInit /\ [][HNext]_vars

-----------------------------------------------------------------------------
(* Claims about the index mapping, checked under SpecHier *)

RECURSIVE SumSizes(_, _)
SumSizes(policies, k) ==
    IF k = 0 THEN 0 ELSE policies[k].num_actions + SumSizes(policies, k - 1)

\* first and last flat action of every branch
BoundaryActions ==
    UNION {{policy.lower_level_policies[k].shift,
            policy.lower_level_policies[k].shift + policy.lower_level_policies[k].num_actions - 1}
           : k \in 1..Len(policy.lower_level_policies)}

\* C6: every flat action i of the tree (N = the sum of the branch sizes, the
\* length of action_mapping) decodes to high = action_mapping[i] and
\* low = i - shift[high] with 0 <= low < n_high and shift[high] + low = i;
\* another flat action decodes to another pair, and every pair (k, j) with
\* j < n_k is the decoding of the flat action shift_k + j.
C6_IndexBijection ==
    /\ (h_call.op = "action2high_low_level"
        /\ h_call.input[1] < Len(policy.action_mapping))
       => /\ ~h_call.result.raised
          /\ LET i == h_call.input[1]
                 high == h_call.result.high_lvl[1]
                 low == h_call.result.low_lvl[1]
                 branch == policy.lower_level_policies[high + 1]
             IN  /\ high = policy.action_mapping[i + 1]
                 /\ low = i - branch.shift
                 /\ 0 <= low /\ low < branch.num_actions
                 /\ branch.shift + low = i
                 /\ \A j \in (BoundaryActions \cup {i - 1, i + 1}) \ {i} :
                        (0 <= j /\ j < Len(policy.action_mapping))
                        => LET other == action2high_low_level(policy, <<j>>)
                           IN  <<other.high_lvl[1], other.low_lvl[1]>> # <<high, low>>
    /\ h_call.op = "init"
       => \A k \in 1..Len(policy.lower_level_policies) :
              \A j \in 0..(policy.lower_level_policies[k].num_actions - 1) :
                  LET d == action2high_low_level(policy,
                               <<policy.lower_level_policies[k].shift + j>>)
                  IN  ~d.raised /\ d.high_lvl = <<k - 1>> /\ d.low_lvl = <<j>>

C6_Witness ==
    /\ h_call.op = "action2high_low_level"
    /\ policy.class = "MineRLObtainPolicy"
    /\ h_call.input = <<10>>
    /\ h_call.result.high_lvl = <<1>>
    /\ h_call.result.low_lvl = <<1>>

\* C7: the branch sizes sum to the n of the env's Discrete(n), action_mapping
\* has n entries, and the entries equal to k are exactly those at
\* shift_k .. shift_k + n_k - 1, for every wrapper and both policy classes.
C7_PartitionCoverage ==
    h_call.op = "init"
    => /\ SumSizes(policy.lower_level_policies, Len(policy.lower_level_policies)) = env.n
       /\ Len(policy.action_mapping) = env.n
       /\ \A k \in 1..Len(policy.lower_level_policies) :
              {i \in 1..Len(policy.action_mapping) : policy.action_mapping[i] = k - 1}
              = {policy.lower_level_policies[k].shift + j
                 : j \in 1..policy.lower_level_policies[k].num_actions}

-----------------------------------------------------------------------------
(* Claims about the routing of a batch, checked under SpecHier *)

\* an optimize_networks call whose stored actions all have an entry in
\* action_mapping
DecodableBatch ==
    /\ h_call.op = "optimize_networks"
    /\ \A r \in 1..Len(h_call.input.action_argmax) :
           h_call.input.action_argmax[r] < Len(policy.action_mapping)

\* the rows of the batch whose stored action decodes to branch k, ascending
RowsOfBranch(k) ==
    SelectSeq(RowsOf(Len(h_call.input.action_argmax)),
              LAMBDA r : policy.action_mapping[h_call.input.action_argmax[r] + 1] = k)

\* the calls of branch k's optimize_networks the call made
InvocationsOf(k) ==
    SelectSeq(h_call.result.invocations,
              LAMBDA c : c.callee = "lower_level_policies" /\ c.policy_idx = k)

\* what the claim of C8 asks of branch k
RoutedToBranch(k) ==
    IF RowsOfBranch(k) = <<>> THEN InvocationsOf(k) = <<>>
    ELSE /\ Len(InvocationsOf(k)) = 1
         /\ InvocationsOf(k)[1].transitions.state
            = [j \in 1..Len(RowsOfBranch(k)) |-> h_call.input.state[RowsOfBranch(k)[j]]]
         /\ InvocationsOf(k)[1].transitions.action_argmax
            = [j \in 1..Len(RowsOfBranch(k)) |->
                  h_call.input.action_argmax[RowsOfBranch(k)[j]]
                  - policy.lower_level_policies[k + 1].shift]

\* C8: MineRLHierarchicalPolicy.optimize_networks invokes every branch that
\* has rows exactly once, on the partial batch of exactly the rows whose
\* decoded high-level action is that branch, in ascending order, with their
\* low-level indices as action_argmax, and invokes no branch without rows.
C8_BranchRouting ==
    (DecodableBatch /\ policy.class = "MineRLHierarchicalPolicy")
    => \A k \in 0..(Len(policy.lower_level_policies) - 1) : RoutedToBranch(k)

\* the calls of MineRLMovePolicy.optimize_networks the call made
MoveInvocations ==
    SelectSeq(h_call.result.invocations,
              LAMBDA c : /\ c.callee = "lower_level_policies"
                         /\ policy.lower_level_policies[c.policy_idx + 1].move_policy)

\* C9: when optimize_networks of MineRLHierarchicalPolicy or
\* MineRLObtainPolicy returns, and when the MineRLMovePolicy.optimize_networks
\* it called returns, the dict's action_argmax is, row for row, what it was on
\* entry.
C9_ActionArgmaxRestored ==
    (h_call.op = "optimize_networks" /\ ~h_call.result.raised)
    => /\ h_call.result.transitions.action_argmax = h_call.input.action_argmax
       /\ \A i \in 1..Len(MoveInvocations) :
              /\ ~MoveInvocations[i].raised
              /\ MoveInvocations[i].returned.action_argmax
                 = MoveInvocations[i].transitions.action_argmax

\* a returned call on two rows, one for the mover and one for another
\* branch, during which action_argmax held other values than on entry: the
\* last micro-policy was trained on other indices than the mover was handed,
\* and the other branch on another index than the row's stored action
C9_Witness ==
    /\ h_call.op = "optimize_networks"
    /\ ~h_call.result.raised
    /\ policy.class = "MineRLHierarchicalPolicy"
    /\ Len(h_call.input.action_argmax) = 2
    /\ Len(MoveInvocations) = 1
    /\ Len(MoveInvocations[1].micro) = 6
    /\ MoveInvocations[1].micro[6] # MoveInvocations[1].transitions.action_argmax
    /\ MoveInvocations[1].returned.action_argmax = MoveInvocations[1].transitions.action_argmax
    /\ \E k \in 1..(Len(policy.lower_level_policies) - 1) :
           /\ Len(InvocationsOf(k)) = 1
           /\ InvocationsOf(k)[1].transitions.action_argmax
              # <<h_call.input.action_argmax[RowsOfBranch(k)[1]]>>
    /\ h_call.result.transitions.action_argmax = h_call.input.action_argmax

\* C10: for a batch of several rows, when choose_action returns, row r of
\* the flat output holds values only in the slice of the branch the decider
\* chose for row r, and they are that branch's output for row r; every other
\* slice of row r is zero.
C10_RowsFilledIndependently ==
    (h_call.op = "choose_action" /\ Len(h_call.input) >= 2 /\ ~h_call.result.raised)
    => \A r \in 1..Len(h_call.input) :
           \A k \in 1..Len(policy.lower_level_policies) :
               h_call.result.value[r][k] = IF h_call.input[r] = k - 1 THEN Some({r}) ELSE None

-----------------------------------------------------------------------------
(* Actor.optimize (networks.py): the rows an actor rule trains on.  A TDE  *)
(* tensor is the sequence of its rows' values, an action batch the         *)
(* sequence of the actions taken in the rows, a shape a sequence of sizes. *)

MaxActorRows == 5

\* values of a critic's TDE in a row
TDEValues == {-2, -1, 0, 2}

\* the actions taken in the rows of a batch: two actions, alternating. An
\* action is kept as the action that was taken: in a discrete env the index
\* of the largest entry of its row, torch.argmax(action_batch, dim=1)
ActionBatches(n) == {[r \in 1..n |-> r % 2], [r \in 1..n |-> (r + 1) % 2]}

\* the action spaces of the env: Discrete(2), Box of one and of two dimensions
ActionSpaces ==
    {[discrete_env |-> TRUE, num_actions |-> 2],
     [discrete_env |-> FALSE, num_actions |-> 1],
     [discrete_env |-> FALSE, num_actions |-> 2]}

\* BasePolicy.init_critic: a CACLA-V policy has no Q network unless it uses
\* QVMAX
Q_is_None(hp) == hp.use_CACLA_V /\ ~hp.use_QVMAX

\* tensor.squeeze(): the shape without its dimensions of size 1
squeeze(shape) == SelectSeq(shape, LAMBDA d : d # 1)

\* loss *= weights works in place when weights broadcasts to the shape of
\* loss: no more dimensions, and each one, aligned from the last, 1 or equal
broadcasts_in_place(loss_shape, weights_shape) ==
    /\ Len(weights_shape) <= Len(loss_shape)
    /\ \A i \in 1..Len(weights_shape) :
           \/ weights_shape[i] = 1
           \/ weights_shape[i] = loss_shape[i + Len(loss_shape) - Len(weights_shape)]

\* the rows at which pos_TDE_mask = (TDE < 0).squeeze() is true, ascending
pos_TDE_rows(TDE) == SelectSeq(RowsOf(Len(TDE)), LAMBDA r : TDE[r] < 0)

\* the shape of tensor[pos_TDE_mask] for a tensor of shape (batch, n) and k
\* true rows: the TDE of a batch of one row squeezes to a mask without
\* dimension, and indexing by it puts a new axis of length k in front
masked_shape(batch, k, n) == IF batch = 1 THEN <<k, 1, n>> ELSE <<k, n>>

\* output = actions_current_state[pos_TDE_mask] with its target; rows: the
\* rows of the batch that output holds. The target of a discrete env is
\* transformed_action_batch[pos_TDE_mask].view(output.shape[0]).
actor_selection(hp, TDE, action_batch, rows) ==
    [bound |-> TRUE, raised |-> FALSE, returned |-> FALSE, rows |-> rows,
     target |-> index_rows(action_batch, rows),
     output_shape |-> masked_shape(Len(TDE), Len(rows), hp.num_actions),
     target_shape |-> IF hp.discrete_env THEN <<Len(rows)>>
                      ELSE masked_shape(Len(TDE), Len(rows), hp.num_actions),
     sample_weights |-> <<>>, weights_shape |-> <<>>]

\* no rule has bound output yet
NoSelection ==
    [bound |-> FALSE, raised |-> FALSE, returned |-> FALSE, rows |-> <<>>,
     target |-> <<>>, output_shape |-> <<>>, target_shape |-> <<>>,
     sample_weights |-> <<>>, weights_shape |-> <<>>]

\* sample_weights = -1 * torch.ones(target.shape)
minus_ones(selection) ==
    [selection EXCEPT !.sample_weights = [j \in 1..Len(selection.rows) |-> -1],
                      !.weights_shape = selection.target_shape]

\* sample_weights = self.Q.TDE[pos_TDE_mask].view(target.shape[0])
TDE_weights(selection, TDE) ==
    [selection EXCEPT !.sample_weights = index_rows(TDE, selection.rows),
                      !.weights_shape = <<Len(selection.rows)>>]

\* the block "if self.use_CACLA_V"
CACLA_V_block(hp, TDE, action_batch, selection) ==
    IF hp.use_CACLA_V
    THEN minus_ones(actor_selection(hp, TDE, action_batch, pos_TDE_rows(TDE)))
    ELSE selection

\* the block "if self.use_CACLA_Q"; self.Q.TDE of a missing Q is an
\* AttributeError
CACLA_Q_block(hp, Q_TDE, action_batch, selection) ==
    IF ~hp.use_CACLA_Q THEN selection
    ELSE IF Q_is_None(hp) THEN [selection EXCEPT !.raised = TRUE]
    ELSE TDE_weights(actor_selection(hp, Q_TDE, action_batch, pos_TDE_rows(Q_TDE)), Q_TDE)

\* the block "if self.use_DDPG": a gradient step on -Q and an early return;
\* calling a missing Q is a TypeError
DDPG_block(hp, selection) ==
    IF selection.raised \/ ~hp.use_DDPG THEN selection
    ELSE IF Q_is_None(hp) THEN [selection EXCEPT !.raised = TRUE]
    ELSE [selection EXCEPT !.returned = TRUE]

\* the block "if self.use_SPG": actions_current_policy is read but never
\* assigned, a NameError
SPG_block(hp, selection) ==
    IF selection.raised \/ selection.returned \/ ~hp.use_SPG THEN selection
    ELSE [selection EXCEPT !.raised = TRUE]

\* Actor.compute_loss raises: CrossEntropyLoss of a discrete env takes an
\* output of shape (rows, classes) for a target of shape (rows); the loss,
\* one value per row there and one per entry of output otherwise, is
\* multiplied in place by sample_weights.squeeze()
compute_loss_raises(hp, selection) ==
    IF hp.discrete_env
    THEN \/ Len(selection.output_shape) # 2
         \/ ~broadcasts_in_place(selection.target_shape, squeeze(selection.weights_shape))
    ELSE ~broadcasts_in_place(selection.output_shape, squeeze(selection.weights_shape))

\* what Actor.optimize did. trained: the optimizer stepped; logged: the
\* Actor_actual_train_batch_size entry; error: the value returned
actor_result(raised, selection, trained, logged, error) ==
    [raised |-> raised, rows |-> selection.rows, target |-> selection.target,
     sample_weights |-> selection.sample_weights, trained |-> trained,
     logged |-> logged, error |-> error]

\* the end of Actor.optimize from "error = 0", for the selection the rule
\* blocks left; len(output) of a selection no block has bound is a NameError
actor_train(hp, selection) ==
    IF selection.raised \/ (~selection.returned /\ ~selection.bound)
    THEN actor_result(TRUE, selection, FALSE, None, "none")
    ELSE IF selection.returned
    THEN actor_result(FALSE, NoSelection, TRUE, None, "q_vals")
    ELSE IF Len(selection.rows) > 0 /\ compute_loss_raises(hp, selection)
    THEN actor_result(TRUE, selection, FALSE, None, "none")
    ELSE actor_result(FALSE, selection, Len(selection.rows) > 0,
                      IF hp.use_CACLA_V \/ hp.use_CACLA_Q \/ hp.use_SPG
                      THEN Some(Len(selection.rows)) ELSE None,
                      IF Len(selection.rows) > 0 THEN "detached_loss" ELSE "0")

\* Actor.optimize. V_TDE and Q_TDE: the TDE the critics V and Q stored in
\* their last optimize.
Actor_optimize(hp, V_TDE, Q_TDE, action_batch) ==
    actor_train(hp,
        SPG_block(hp,
            DDPG_block(hp,
                CACLA_Q_block(hp, Q_TDE, action_batch,
                    CACLA_V_block(hp, V_TDE, action_batch, NoSelection)))))

(* Actor.optimize as a state machine *)

\* the hyperparameters of an ActorCritic policy and the action space of its env
ActorHyperparameters ==
    {[discrete_env |-> space.discrete_env, num_actions |-> space.num_actions,
      use_CACLA_V |-> rule.use_CACLA_V, use_CACLA_Q |-> rule.use_CACLA_Q,
      use_SPG |-> rule.use_SPG, use_DDPG |-> rule.use_DDPG,
      use_QVMAX |-> rule.use_QVMAX]
     : space \in ActionSpaces,
       rule \in [use_CACLA_V : BOOLEAN, use_CACLA_Q : BOOLEAN,
                 use_SPG : BOOLEAN, use_DDPG : BOOLEAN, use_QVMAX : BOOLEAN]}

\* ActorCritic.__init__
ActorInit ==
    /\ agent \in ActorHyperparameters
    /\ memory = <<>>
    /\ a_call = NoACall
    /\ hyperparameters = None
    /\ live_net = None
    /\ target_net = None
    /\ td_call = NoCall
    /\ env = None
    /\ policy = None
    /\ h_call = NoHCall

\* the batches train_actor hands to Actor.optimize, with the critic's TDE
ActorBatches ==
    UNION {[TDE : [1..n -> TDEValues], action : ActionBatches(n)] : n \in 1..MaxActorRows}

\* the TDE of Q on a batch whose TDE is known. A policy that trains its
\* actor by one rule has the TDE of that rule's critic; with both CACLA
\* rules on, V.TDE is the batch's TDE and Q.TDE agrees with it in every row
\* or has the other sign in every row.
Q_TDEs(hp, TDE) ==
    IF hp.use_CACLA_V /\ hp.use_CACLA_Q
    THEN {TDE, [r \in 1..Len(TDE) |-> -TDE[r]]}
    ELSE {TDE}

\* ActorCritic.train_actor: self.actor.optimize(transitions)
TrainActor ==
    /\ a_call.op = "init"
    /\ \E batch \in ActorBatches : \E Q_TDE \in Q_TDEs(agent, batch.TDE) :
           a_call' = [op |-> "Actor.optimize",
                      input |-> [TDE |-> batch.TDE, Q_TDE |-> Q_TDE,
                                 action |-> batch.action],
                      result |-> Actor_optimize(agent, batch.TDE, Q_TDE, batch.action)]
    /\ UNCHANGED <<agent, memory, td_vars, h_vars>>

\* the caller is done with the result of the last call
AReturn ==
    /\ a_call.op # "init"
    /\ a_call' = NoACall
    /\ UNCHANGED <<agent, memory, td_vars, h_vars>>

ActorNext ==
    \/ TrainActor
    \/ AReturn

SpecActor == ActorInit /\ [][ActorNext]_vars

\* CACLA-V is the rule the actor trains with, and no other rule is on
CACLA_V_active ==
    /\ agent.use_CACLA_V
    /\ ~agent.use_CACLA_Q
    /\ ~agent.use_SPG
    /\ ~agent.use_DDPG

\* C11: with CACLA-V as the active rule, Actor.optimize trains on exactly the
\* rows whose V.TDE is strictly negative, with the action taken in each of
\* these rows as its target and -1 as its sample weight.
C11_CACLA_V_Selection ==
    (a_call.op = "Actor.optimize" /\ CACLA_V_active) =>
        /\ ~a_call.result.raised
        /\ \A r \in 1..Len(a_call.input.TDE) :
               (\E j \in 1..Len(a_call.result.rows) : a_call.result.rows[j] = r)
                   <=> a_call.input.TDE[r] < 0
        /\ Len(a_call.result.target) = Len(a_call.result.rows)
        /\ Len(a_call.result.sample_weights) = Len(a_call.result.rows)
        /\ \A j \in 1..Len(a_call.result.rows) :
               /\ a_call.result.target[j] = a_call.input.action[a_call.result.rows[j]]
               /\ a_call.result.sample_weights[j] = -1
        /\ a_call.result.trained = (Len(a_call.result.rows) > 0)

\* exactly one of the rules CACLA-V, CACLA-Q, SPG is on, and DDPG is off
one_rule_active ==
    /\ ~agent.use_DDPG
    /\ \/ agent.use_CACLA_V /\ ~agent.use_CACLA_Q /\ ~agent.use_SPG
       \/ ~agent.use_CACLA_V /\ agent.use_CACLA_Q /\ ~agent.use_SPG
       \/ ~agent.use_CACLA_V /\ ~agent.use_CACLA_Q /\ agent.use_SPG

\* the active rule selects no row of the batch: CACLA-V and CACLA-Q select
\* the rows with TDE < 0, SPG (for which TDE stands for action_TDE, the
\* advantage of the taken action) the rows with action_TDE > 0
selection_is_empty(hp, TDE) ==
    \A r \in 1..Len(TDE) : IF hp.use_SPG THEN ~(TDE[r] > 0) ELSE ~(TDE[r] < 0)

\* C12: when the active rule (CACLA-V, CACLA-Q or SPG) selects no row of the
\* batch, Actor.optimize does not raise, makes no parameter update, logs a
\* training batch size of 0 and returns the error 0.
C12_EmptySelectionIsNoOp ==
    (/\ a_call.op = "Actor.optimize"
     /\ one_rule_active
     /\ selection_is_empty(agent, a_call.input.TDE)) =>
        /\ ~a_call.result.raised
        /\ ~a_call.result.trained
        /\ a_call.result.logged = Some(0)
        /\ a_call.result.error = "0"

-----------------------------------------------------------------------------
(* policies.py: the Agent, the replay memory of its policy and the          *)
(* importance weights of prioritized replay.  The replay buffers (exp_rep)  *)
(* are used through add and sample only.                                    *)

MaxMemory == 2      \* transitions in the replay memory

\* importance weights are WeightNum / WeightDen
WeightDen == 2

ImportanceWeights == {1, 2}

\* an argument of remember: what the caller passed, and its value
Arg(what, value) == [what |-> what, value |-> value]

\* the transitions the training loop hands to Agent.remember; the next state
\* of a terminal transition is none
Remembered ==
    {[state |-> Arg("state", 1), action |-> Arg("action", 0),
      next_state |-> next_state, reward |-> Arg("reward", reward),
      done |-> Arg("done", IF next_state.what = "none" THEN 1 ELSE 0)]
     : next_state \in {Arg("none", 0), Arg("next_state", 2)}, reward \in Rewards}

\* ReplayBuffer.add(state, action, reward, next_state, done)
ReplayBuffer_add(buffer, state, act, reward, next_state, done) ==
    Append(buffer, [state |-> state, action |-> act, reward |-> reward,
                    next_state |-> next_state, done |-> done])

\* BasePolicy.remember(self, state, action, reward, next_state, done)
BasePolicy_remember(buffer, state, act, reward, next_state, done) ==
    ReplayBuffer_add(buffer, state, act, reward, next_state, done)

\* Agent.remember(self, state, action, next_state, reward, done):
\* self.policy.remember(state, action, next_state, reward, done)
Agent_remember(buffer, state, act, next_state, reward, done) ==
    BasePolicy_remember(buffer, state, act, next_state, reward, done)

\* sampling_size = min(len(self.memory), self.batch_size)
sampling_size(hp, buffer) ==
    IF Len(buffer) < hp.batch_size THEN Len(buffer) ELSE hp.batch_size

\* what self.memory.sample returns: sampling_size stored transitions, by
\* their indices, and an importance weight for each of them under PER
Samples(hp, buffer) ==
    [idxs : [1..sampling_size(hp, buffer) -> 1..Len(buffer)],
     importance_weights :
         IF hp.use_PER
         THEN [1..sampling_size(hp, buffer) -> ImportanceWeights]
         ELSE {None}]

\* BasePolicy.get_transitions: the dict extract_batch builds (its tensors
\* are the rows sampled; PER_importance_weights and PER_idxs are None there)
\* with PER_idxs and importance_weights set
get_transitions(hp, sampled) ==
    [rows |-> sampled.idxs,
     PER_importance_weights |-> None,
     PER_idxs |-> IF hp.use_PER THEN Some(sampled.idxs) ELSE None,
     importance_weights |->
         IF hp.use_PER THEN Some(sampled.importance_weights) ELSE None]

\* OptimizableNet.compute_loss: the factor of each row's loss in the mean,
\* over WeightDen; without sample_weights every row counts in full
loss_factors(rows, sample_weights) ==
    IF sample_weights = None THEN [r \in 1..Len(rows) |-> WeightDen]
    ELSE sample_weights[1]

\* TempDiffNet.optimize(transitions, importance_weights, ...): the
\* sample_weights of its optimize_net call and the factors of the loss
TempDiffNet_optimize(transitions, importance_weights) ==
    [trained |-> TRUE, sample_weights |-> importance_weights,
     factors |-> loss_factors(transitions.rows, importance_weights)]

\* the critic does not exist and is not optimized
NotTrained == [trained |-> FALSE, sample_weights |-> None, factors |-> <<>>]

\* BasePolicy.train_critic; self_importance_weights: self.importance_weights
train_critic(hp, self_importance_weights, transitions) ==
    [V |-> IF hp.use_QV
           THEN TempDiffNet_optimize(transitions, transitions.PER_importance_weights)
           ELSE NotTrained,
     Q |-> TempDiffNet_optimize(transitions, self_importance_weights)]

\* BasePolicy.optimize of a Q_Policy: get_transitions, optimize_networks
\* (train_critic), and update_priorities on the PER_idxs under PER
BasePolicy_optimize(hp, sampled) ==
    [transitions |-> get_transitions(hp, sampled),
     critic |-> train_critic(hp, hp.importance_weights, get_transitions(hp, sampled)),
     update_priorities |-> get_transitions(hp, sampled).PER_idxs]

(* the Agent as a state machine *)

\* BasePolicy.__init__: the hyperparameters read; self.importance_weights = None
PolicyHyperparameters ==
    [use_PER : BOOLEAN, use_QV : BOOLEAN, batch_size : 1..MaxMemory,
     importance_weights : {None}]

\* Agent.__init__ with a Q_Policy: the replay memory is empty
AgentInit ==
    /\ agent \in PolicyHyperparameters
    /\ memory = <<>>
    /\ a_call = NoACall
    /\ hyperparameters = None
    /\ live_net = None
    /\ target_net = None
    /\ td_call = NoCall
    /\ env = None
    /\ policy = None
    /\ h_call = NoHCall

\* Agent.remember, for any transition, while the memory has room
Remember ==
    /\ a_call.op = "init"
    /\ Len(memory) < MaxMemory
    /\ \E t \in Remembered :
           /\ memory' = Agent_remember(memory, t.state, t.action, t.next_state,
                                       t.reward, t.done)
           /\ a_call' = [op |-> "remember", input |-> t, result |-> None]
    /\ UNCHANGED <<agent, td_vars, h_vars>>

\* Agent.optimize, once a transition is remembered
AgentOptimize ==
    /\ a_call.op = "init"
    /\ Len(memory) > 0
    /\ \E sampled \in Samples(agent, memory) :
           a_call' = [op |-> "optimize", input |-> sampled,
                      result |-> BasePolicy_optimize(agent, sampled)]
    /\ UNCHANGED <<agent, memory, td_vars, h_vars>>

AgentNext ==
    \/ Remember
    \/ AgentOptimize
    \/ AReturn

SpecAgent == AgentInit /\ [][AgentNext]_vars

\* C13: under prioritized replay, the importance weights that the buffer's
\* sample returned in get_transitions are the weights by which the per-row
\* loss of V.optimize and of Q.optimize is multiplied in the same call.
C13_ImportanceWeightsReachLoss ==
    (a_call.op = "optimize" /\ agent.use_PER) =>
        /\ a_call.result.critic.Q.factors = a_call.input.importance_weights
        /\ a_call.result.critic.V.trained =>
               a_call.result.critic.V.factors = a_call.input.importance_weights

\* C15: a transition handed to Agent.remember is added to the replay buffer
\* with its reward as add's reward and its next state (none for a terminal
\* transition) as add's next_state.
C15_RememberKeepsPositions ==
    (a_call.op = "remember") =>
        /\ memory[Len(memory)].reward = a_call.input.reward
        /\ memory[Len(memory)].next_state = a_call.input.next_state

-----------------------------------------------------------------------------
(* policies.py: REM, an ensemble of ground policies *)

MaxHeads == 3       \* REM_num_heads is 1..MaxHeads

\* the errors a head's optimize_networks returns
HeadErrors == {1, 3}

\* random.sample(range(num_heads), num_samples): num_samples distinct heads,
\* in any order
random_sample(num_heads, num_samples) ==
    {idxes \in [1..num_samples -> 0..(num_heads - 1)] :
        \A i, j \in 1..num_samples : i # j => idxes[i] # idxes[j]}

\* error after the first i rounds of the loop "for idx in idxes":
\* error = 0, then error += current_policy.optimize_networks(transitions)
RECURSIVE error_after(_, _)
error_after(errors, i) ==
    IF i = 0 THEN 0 ELSE error_after(errors, i - 1) + errors[i]

\* return error
REM_return_Unaveraged(error, num_samples) == [num |-> error, den |-> 1]

\* return error / self.num_samples
REM_return(error, num_samples) == [num |-> error, den |-> num_samples]

\* REM.optimize_networks. idxes: what random.sample returned; errors[i]: what
\* the optimize_networks of the i-th picked head returned. invocations: the
\* calls of a head's optimize_networks, in order, with the batch passed.
REM_optimize_networks(hp, transitions, idxes, errors) ==
    [invocations |-> [i \in 1..Len(idxes) |->
                         [head |-> idxes[i], transitions |-> transitions,
                          returned |-> errors[i]]],
     error |-> REM_return(error_after(errors, Len(idxes)), hp.REM_num_samples)]

(* REM as a state machine *)

\* REM.__init__: REM_num_heads ground policies, of which REM_num_samples
\* can be sampled
REMHyperparameters ==
    UNION {[REM_num_heads : {num_heads}, REM_num_samples : 1..num_heads]
           : num_heads \in 1..MaxHeads}

REMInit ==
    /\ agent \in REMHyperparameters
    /\ memory = <<>>
    /\ a_call = NoACall
    /\ hyperparameters = None
    /\ live_net = None
    /\ target_net = None
    /\ td_call = NoCall
    /\ env = None
    /\ policy = None
    /\ h_call = NoHCall

\* the batches BasePolicy.optimize passes to optimize_networks
REMBatches == {extract_batch(sample) : sample \in {b \in Batches : Len(b) = 1}}

\* REM.optimize_networks on a batch, for any outcome of random.sample and any
\* errors of the heads
REMOptimizeNetworks ==
    /\ a_call.op = "init"
    /\ \E transitions \in REMBatches,
          idxes \in random_sample(agent.REM_num_heads, agent.REM_num_samples),
          errors \in [1..agent.REM_num_samples -> HeadErrors] :
           a_call' = [op |-> "REM.optimize_networks",
                      input |-> [transitions |-> transitions, idxes |-> idxes,
                                 errors |-> errors],
                      result |-> REM_optimize_networks(agent, transitions, idxes, errors)]
    /\ UNCHANGED <<agent, memory, td_vars, h_vars>>

REMNext ==
    \/ REMOptimizeNetworks
    \/ AReturn

SpecREM == REMInit /\ [][REMNext]_vars

\* the number of calls of optimize_networks on a head
calls_of_head(invocations, head) ==
    Cardinality({i \in 1..Len(invocations) : invocations[i].head = head})

C16_NonFinalMaskAndStates ==
    (td_call.op = "optimize") =>
        /\ Len(td_call.non_final_mask) = Len(td_call.batch)
        /\ \A i \in 1..Len(td_call.batch) :
               td_call.non_final_mask[i] = (td_call.batch[i].next_state # None)
        /\ IF \A i \in 1..Len(td_call.batch) : td_call.batch[i].next_state = None
           THEN td_call.non_final_next_states = None
           ELSE /\ td_call.non_final_next_states # None
                /\ Len(td_call.non_final_next_states[1]) =
                       CountTrue(td_call.non_final_mask, Len(td_call.batch))
                /\ \A i \in 1..Len(td_call.batch) :
                       td_call.non_final_mask[i] =>
                           td_call.non_final_next_states[1][CountTrue(td_call.non_final_mask, i)]
                               = td_call.batch[i].next_state[1]

\* a batch with a terminal row between two rows with different next states
C16_Witness ==
    /\ td_call.op = "optimize"
    /\ Len(td_call.batch) = 3
    /\ td_call.batch[1].next_state = Some(2)
    /\ td_call.batch[2].next_state = None
    /\ td_call.batch[3].next_state = Some(1)
    /\ td_call.non_final_mask = <<TRUE, FALSE, TRUE>>
    /\ td_call.non_final_next_states = Some(<<2, 1>>)

-----------------------------------------------------------------------------
(* Claims about the wrapper's reverse mapping, checked under SpecHier *)

\* C17: dict2idx gives back the flat index of the structured action of every
\* flat index of the env's Discrete(n), in every wrapper configuration, and
\* no other flat index has the same structured action.
C17_Dict2IdxRoundTrip ==
    (h_call.op = "dict2idx") =>
        /\ h_call.result = Returned(h_call.input[1])
        /\ \A other \in 0..(env.n - 1) :
               other # h_call.input[1] =>
                   action(env, other).value # action(env, h_call.input[1]).value

-----------------------------------------------------------------------------
(* Claims about the partial batches, checked under SpecHier *)

\* the rows of idx_mask that are non-final in the parent batch, in order
selected_non_final(transitions, idx_mask) ==
    SelectSeq(idx_mask, LAMBDA r : transitions.non_final_mask[r])

\* C18: for any ascending, non-empty row list idx_mask of a parent batch,
\* apply_mask_to_transitions gives a partial batch whose non_final_mask is
\* the parent's mask at the selected rows and whose non_final_next_states and
\* non_final_next_state_features hold, in row order, the parent's next-state
\* rows of the selected non-final rows, each taken at the number of true
\* entries of the parent's mask up to its row; there are as many of them as
\* the partial mask has true entries.
C18_PartialBatchNextStates ==
    (h_call.op = "apply_mask_to_transitions") =>
        /\ ~h_call.result.raised
        /\ h_call.result.value.non_final_mask
           = [j \in 1..Len(h_call.input.idx_mask) |->
                 h_call.input.transitions.non_final_mask[h_call.input.idx_mask[j]]]
        /\ h_call.result.value.non_final_next_states
           = Some([j \in 1..Len(selected_non_final(h_call.input.transitions, h_call.input.idx_mask)) |->
                      h_call.input.transitions.non_final_next_states[1][
                          CountTrue(h_call.input.transitions.non_final_mask,
                                    selected_non_final(h_call.input.transitions,
                                                       h_call.input.idx_mask)[j])]])
        /\ h_call.result.value.non_final_next_state_features
           = Some([j \in 1..Len(selected_non_final(h_call.input.transitions, h_call.input.idx_mask)) |->
                      h_call.input.transitions.non_final_next_state_features[1][
                          CountTrue(h_call.input.transitions.non_final_mask,
                                    selected_non_final(h_call.input.transitions,
                                                       h_call.input.idx_mask)[j])]])
        /\ Len(h_call.result.value.non_final_next_states[1])
           = CountTrue(h_call.result.value.non_final_mask,
                       Len(h_call.result.value.non_final_mask))

\* C19: MineRLHierarchicalPolicy.optimize_networks on a batch whose rows are
\* all terminal (non_final_next_states and non_final_next_state_features
\* None) builds the partial batch of every branch with rows and returns
\* without raising.
C19_AllTerminalBatchCompletes ==
    (/\ DecodableBatch
     /\ policy.class = "MineRLHierarchicalPolicy"
     /\ policy.decider # None
     /\ h_call.input.non_final_next_states = None
     /\ h_call.input.non_final_next_state_features = None) =>
        /\ ~h_call.result.raised
        /\ \A k \in 0..(Len(policy.lower_level_policies) - 1) :
               RowsOfBranch(k) # <<>> => Len(InvocationsOf(k)) = 1

\* the number of times row r is listed in the lists of mask_list
listings_of_row(mask_list, r) ==
    Cardinality({kj \in UNION {{<<k, j>> : j \in 1..Len(mask_list[k])} : k \in 1..Len(mask_list)} :
                    mask_list[kj[1]][kj[2]] = r})

\* C20: the row lists get_masks gives for the branches are pairwise disjoint
\* and hold every row of the batch exactly once, and in the per-row error a
\* hierarchical optimize_networks returns, each row has the decider's error on
\* the row plus the error of exactly one branch on the row: the branch the
\* row's high-level action selects.
C20_RowErrorOfOneBranch ==
    (h_call.op = "optimize_networks" /\ ~h_call.result.raised) =>
        \A r \in 1..Len(h_call.input.action_argmax) :
            /\ listings_of_row(h_call.result.mask_list, r) = 1
            /\ \E j \in 1..Len(h_call.result.mask_list[
                       policy.action_mapping[h_call.input.action_argmax[r] + 1] + 1]) :
                   h_call.result.mask_list[
                       policy.action_mapping[h_call.input.action_argmax[r] + 1] + 1][j] = r
            /\ h_call.result.error[1][r]
               = <<[callee |-> "decider", policy_idx |-> -1,
                    state |-> h_call.input.state[r]],
                   [callee |-> "lower_level_policies",
                    policy_idx |-> policy.action_mapping[h_call.input.action_argmax[r] + 1],
                    state |-> h_call.input.state[r]]>>

\* a returned call on two rows of which the first went to a later branch
\* than the second
C20_Witness ==
    /\ h_call.op = "optimize_networks"
    /\ ~h_call.result.raised
    /\ Len(h_call.input.action_argmax) = 2
    /\ h_call.result.mask_list[1] = <<2>>
    /\ \E k \in 2..Len(policy.lower_level_policies) : h_call.result.mask_list[k] = <<1>>
    /\ h_call.result.error[1][1][2].policy_idx > h_call.result.error[1][2][2].policy_idx

-----------------------------------------------------------------------------
(* policies.py / networks.py: the critics Q and V of one policy.  An        *)
(* estimator is its target network and the attribute predictions_next_state *)
(* (None until calculate_updated_value_next_state has set it).              *)

\* the flags init_critic and predict_next_state read
CriticFlags ==
    [use_actor_critic : BOOLEAN, use_CACLA_V : BOOLEAN, use_QV : BOOLEAN,
     use_QVMAX : BOOLEAN]

\* Q.__init__ / V.__init__ with use_target_net: the estimator and its target
Estimator(target) == [target_net |-> target, predictions_next_state |-> None]

\* BasePolicy.init_critic: Q_net and V_net, each None unless its condition holds
init_critic(hp, Q_target, V_target) ==
    [Q |-> IF ~(hp.use_CACLA_V /\ ~hp.use_QVMAX) THEN Some(Estimator(Q_target)) ELSE None,
     V |-> IF hp.use_QV \/ hp.use_QVMAX \/ (hp.use_actor_critic /\ hp.use_CACLA_V)
           THEN Some(Estimator(V_target)) ELSE None]

\* what predict_next_state returned and where it took it from
Prediction(source, r) == [raised |-> r.raised, source |-> source, value |-> r.value]

\* other.calculate_next_state_values(...); AttributeError when other is None
other_calculate_next_state_values(other, features, mask) ==
    IF other = None THEN Raised
    ELSE calculate_next_state_values(Some(other[1].target_net), features, mask)

\* V.predictions_next_state; AttributeError when V is None or has not cached
cached_predictions_next_state(V) ==
    IF V = None THEN Raised
    ELSE IF V[1].predictions_next_state = None THEN Raised
    ELSE Returned(V[1].predictions_next_state)

\* Q.predict_next_state with the QV branch tested first
Q_predict_next_state_QVFirst(hp, self, features, mask, V) ==
    IF hp.use_QV
    THEN Prediction("V.predictions_next_state", cached_predictions_next_state(V))
    ELSE IF hp.use_QVMAX
    THEN Prediction("V.calculate_next_state_values",
                    other_calculate_next_state_values(V, features, mask))
    ELSE Prediction("self.calculate_next_state_values",
                    calculate_next_state_values(Some(self.target_net), features, mask))

\* Q.predict_next_state
Q_predict_next_state(hp, self, features, mask, V) ==
    IF hp.use_QVMAX
    THEN Prediction("V.calculate_next_state_values",
                    other_calculate_next_state_values(V, features, mask))
    ELSE IF hp.use_QV
    THEN Prediction("V.predictions_next_state", cached_predictions_next_state(V))
    ELSE Prediction("self.calculate_next_state_values",
                    calculate_next_state_values(Some(self.target_net), features, mask))

\* V.predict_next_state
V_predict_next_state(hp, self, features, mask, Q) ==
    IF hp.use_QVMAX
    THEN Prediction("Q.calculate_next_state_values",
                    other_calculate_next_state_values(Q, features, mask))
    ELSE Prediction("self.calculate_next_state_values",
                    calculate_next_state_values(Some(self.target_net), features, mask))

\* TempDiffNet.calculate_updated_value_next_state inside optimize: the
\* estimator caches what predict_next_state returned
cache_prediction(self, prediction) ==
    IF prediction.raised THEN self
    ELSE [self EXCEPT !.predictions_next_state = prediction.value]

\* the estimator was not optimized
NoPrediction == [raised |-> FALSE, source |-> "none", value |-> None]

\* train_critic after V.optimize(transitions, ..., self.actor, Q, None)
V_optimized(p, prediction) ==
    [policy |-> [p EXCEPT !.V = Some(cache_prediction(p.V[1], prediction))],
     V_read |-> prediction]

\* if self.V is not None: TDE_V = V.optimize(...)
V_optimize(p, features, mask) ==
    IF p.V = None THEN [policy |-> p, V_read |-> NoPrediction]
    ELSE V_optimized(p, V_predict_next_state(p.hp, p.V[1], features, mask, p.Q))

\* train_critic after Q.optimize(transitions, ..., self.actor, None, V)
Q_optimized(p, prediction) ==
    [policy |-> [p EXCEPT !.Q = Some(cache_prediction(p.Q[1], prediction))],
     Q_read |-> prediction]

\* if self.Q is not None: TDE_Q = Q.optimize(...)
Q_optimize(p, features, mask) ==
    IF p.Q = None THEN [policy |-> p, Q_read |-> NoPrediction]
    ELSE Q_optimized(p, Q_predict_next_state(p.hp, p.Q[1], features, mask, p.V))

\* (self.V is not None) + (self.Q is not None)
critic_count(p) == (IF p.V # None THEN 1 ELSE 0) + (IF p.Q # None THEN 1 ELSE 0)

\* TDE = (TDE_Q + TDE_V) / critic_count: ZeroDivisionError without a critic
critic_result(p, order, V_read, Q_read) ==
    [raised |-> V_read.raised \/ Q_read.raised \/ critic_count(p) = 0,
     policy |-> p, order |-> order, V_read |-> V_read, Q_read |-> Q_read,
     divisor |-> critic_count(p)]

\* the second optimize of train_critic, unless the first one raised
Q_after_V(v, features, mask) ==
    IF v.V_read.raised THEN critic_result(v.policy, <<"V">>, v.V_read, NoPrediction)
    ELSE critic_result(Q_optimize(v.policy, features, mask).policy, <<"V", "Q">>,
                       v.V_read, Q_optimize(v.policy, features, mask).Q_read)

V_after_Q(q, features, mask) ==
    IF q.Q_read.raised THEN critic_result(q.policy, <<"Q">>, NoPrediction, q.Q_read)
    ELSE critic_result(V_optimize(q.policy, features, mask).policy, <<"Q", "V">>,
                       V_optimize(q.policy, features, mask).V_read, q.Q_read)

\* train_critic with Q optimized before V
critic_optimize_QFirst(p, features, mask) ==
    V_after_Q(Q_optimize(p, features, mask), features, mask)

\* BasePolicy.train_critic(Q, V, transitions): V.optimize, then Q.optimize,
\* then the averaged TDE
critic_optimize(p, features, mask) ==
    Q_after_V(V_optimize(p, features, mask), features, mask)

\* non_final_next_state_features of BasePolicy.optimize
next_state_features(transitions) ==
    IF transitions.non_final_next_states # None
    THEN Some(forward_next_state(transitions.non_final_next_states[1]))
    ELSE None

(* the critics as a state machine *)

\* the sampled transitions, as far as the next-state predictions read them
CriticSamples ==
    UNION {[1..n -> {t \in Transition : t.reward = 0}] : n \in 1..MaxRows}

\* BasePolicy.__init__ of a ground policy: init_actor_critic
CriticInit ==
    /\ \E hp \in CriticFlags, Q_target \in Weights, V_target \in Weights :
           agent = [hp |-> hp, Q |-> init_critic(hp, Q_target, V_target).Q,
                    V |-> init_critic(hp, Q_target, V_target).V]
    /\ memory = <<>>
    /\ a_call = NoACall
    /\ hyperparameters = None
    /\ live_net = None
    /\ target_net = None
    /\ td_call = NoCall
    /\ env = None
    /\ policy = None
    /\ h_call = NoHCall

\* optimize_networks of the policy on a sampled batch: train_critic; the
\* estimators keep what they cached
TrainCritic ==
    /\ a_call.op = "init"
    /\ \E sample \in CriticSamples :
           /\ a_call' = [op |-> "train_critic", input |-> sample,
                         result |-> critic_optimize(agent,
                                        next_state_features(extract_batch(sample)),
                                        extract_batch(sample).non_final_mask)]
           /\ agent' = a_call'.result.policy
    /\ UNCHANGED <<memory, td_vars, h_vars>>

\* Q.update_targets and V.update_targets after training steps: each target
\* network takes the weights training has given the live network
CriticUpdateTargets ==
    /\ a_call.op = "init"
    /\ \E Q_live \in Weights, V_live \in Weights :
           agent' = [agent EXCEPT
                        !.Q = IF @ = None THEN None
                              ELSE Some([@[1] EXCEPT !.target_net = hard_update(Q_live, @)]),
                        !.V = IF @ = None THEN None
                              ELSE Some([@[1] EXCEPT !.target_net = hard_update(V_live, @)])]
    /\ a_call' = [op |-> "update_targets", input |-> None, result |-> None]
    /\ UNCHANGED <<memory, td_vars, h_vars>>

CriticNext ==
    \/ TrainCritic
    \/ CriticUpdateTargets
    \/ AReturn

SpecCritic == CriticInit /\ [][CriticNext]_vars

-----------------------------------------------------------------------------
(* Claims about the critics of one policy, checked under SpecCritic *)

\* the next-state values an estimator's target network gives on the batch of
\* the call in progress
values_on_batch(estimator) ==
    calculate_next_state_values(Some(estimator[1].target_net),
                                next_state_features(extract_batch(a_call.input)),
                                extract_batch(a_call.input).non_final_mask).value

\* C21: in a train_critic call in QV mode (use_QV without use_QVMAX) of a
\* policy that has a Q, V.optimize runs before Q.optimize, and the
\* predictions_next_state Q reads from V are the ones V computed in this
\* call, on the rows of this batch, with V's target network.
C21_QVCacheIsFresh ==
    ( /\ a_call.op = "train_critic"
      /\ agent.hp.use_QV /\ ~agent.hp.use_QVMAX
      /\ agent.Q # None )
    => /\ ~a_call.result.raised
       /\ a_call.result.order = <<"V", "Q">>
       /\ a_call.result.Q_read.source = "V.predictions_next_state"
       /\ a_call.result.Q_read.value = a_call.result.V_read.value
       /\ a_call.result.Q_read.value = values_on_batch(agent.V)

C21_Witness ==
    /\ a_call.op = "train_critic"
    /\ agent.hp.use_QV /\ ~agent.hp.use_QVMAX
    /\ agent.Q # None
    /\ extract_batch(a_call.input).non_final_mask = <<FALSE, TRUE>>
    /\ a_call.result.Q_read.value = Some(<<0, GammaDen>>)
    /\ values_on_batch(agent.Q) = Some(<<0, 0>>)

\* C22: predict_next_state takes one of three sources. Under use_QVMAX, Q
\* returns V.calculate_next_state_values and V returns
\* Q.calculate_next_state_values; under use_QV without use_QVMAX, Q returns
\* V's cached predictions_next_state; in every other case the estimator
\* returns calculate_next_state_values on its own target network.
C22_NextStateSource ==
    (a_call.op = "train_critic" /\ ~a_call.result.raised) =>
        /\ agent.Q # None =>
               IF agent.hp.use_QVMAX
               THEN /\ a_call.result.Q_read.source = "V.calculate_next_state_values"
                    /\ a_call.result.Q_read.value = values_on_batch(agent.V)
               ELSE IF agent.hp.use_QV
               THEN /\ a_call.result.Q_read.source = "V.predictions_next_state"
                    /\ a_call.result.Q_read.value = agent.V[1].predictions_next_state
               ELSE /\ a_call.result.Q_read.source = "self.calculate_next_state_values"
                    /\ a_call.result.Q_read.value = values_on_batch(agent.Q)
        /\ agent.V # None =>
               IF agent.hp.use_QVMAX
               THEN /\ a_call.result.V_read.source = "Q.calculate_next_state_values"
                    /\ a_call.result.V_read.value = values_on_batch(agent.Q)
               ELSE /\ a_call.result.V_read.source = "self.calculate_next_state_values"
                    /\ a_call.result.V_read.value = values_on_batch(agent.V)

C22_Witness ==
    /\ a_call.op = "train_critic"
    /\ agent.hp.use_QVMAX /\ agent.hp.use_QV
    /\ a_call.result.Q_read.source = "V.calculate_next_state_values"
    /\ a_call.result.V_read.source = "Q.calculate_next_state_values"
    /\ a_call.result.Q_read.value = Some(<<GammaDen>>)
    /\ a_call.result.V_read.value = Some(<<0>>)

\* C27: whatever the flags, init_critic builds a Q or a V, so that the
\* divisor of train_critic's averaged TDE is not zero, and an estimator that
\* predict_next_state delegates to exists.
C27_SomeCriticExists ==
    /\ critic_count(agent) > 0
    /\ (agent.hp.use_QVMAX \/ agent.hp.use_QV) /\ agent.Q # None => agent.V # None
    /\ agent.hp.use_QVMAX /\ agent.V # None => agent.Q # None
    /\ a_call.op = "train_critic" => a_call.result.divisor > 0 /\ ~a_call.result.raised

-----------------------------------------------------------------------------
(* Claims about the target sync of one estimator, checked under SpecTD *)

\* C23: one sync policy per estimator. On an estimator with a target
\* network, with Polyak averaging every update_targets call blends the live
\* network into the target, at any step count, and never copies it; without
\* Polyak averaging no call blends: the target is copied or left as it was.
C23_OneSyncPolicy ==
    (td_call.op = "update_targets" /\ td_call.old_target # None) =>
        /\ ~td_call.raised
        /\ IF hyperparameters.use_polyak_averaging
           THEN /\ td_call.sync = "soft"
                /\ target_net = Some(soft_update(live_net, td_call.old_target[1]))
           ELSE /\ td_call.sync \in {"hard", "none"}
                /\ target_net \in {Some(hard_update(live_net, td_call.old_target[1])),
                                   td_call.old_target}

C23_Witness ==
    /\ td_call.op = "update_targets"
    /\ hyperparameters.use_polyak_averaging
    /\ td_call.steps % hyperparameters.target_network_hard_steps = 0
    /\ td_call.old_target # None
    /\ td_call.sync = "soft"
    /\ target_net # Some(live_net)
    /\ target_net # td_call.old_target

-----------------------------------------------------------------------------
(* Agent.update_targets (policies.py): the update_targets calls one training *)
(* step makes.  A net is named by the policy that owns it: the path of head  *)
(* indices from the Agent's policy, <<>> for that policy itself and for the  *)
(* feature extractors F_s and F_sa, which all policies share.                *)

Net(owner, net) == [owner |-> owner, net |-> net]

\* BasePolicy.update_targets of a Q_Policy or ActorCritic: Q, V, the actor
\* of an actor-critic, then self.F_s and self.F_sa
BasePolicy_update_targets(hp, owner) ==
    (IF init_critic(hp, None, None).Q # None THEN <<Net(owner, "Q")>> ELSE <<>>)
    \o (IF init_critic(hp, None, None).V # None THEN <<Net(owner, "V")>> ELSE <<>>)
    \o (IF hp.use_actor_critic THEN <<Net(owner, "actor")>> ELSE <<>>)
    \o <<Net(<<>>, "F_s")>>
    \o (IF hp.use_actor_critic THEN <<Net(<<>>, "F_sa")>> ELSE <<>>)

\* REM.update_targets: policy_heads[idx].update_targets for idx = 0, 1, ...
RECURSIVE REM_update_targets(_, _, _)
REM_update_targets(hp, owner, idx) ==
    IF idx >= hp.REM_num_heads THEN <<>>
    ELSE BasePolicy_update_targets(hp, owner \o <<idx>>)
         \o REM_update_targets(hp, owner, idx + 1)

\* self.policy.update_targets(n_steps) for the policy create_policy built
policy_update_targets(hp) ==
    IF hp.use_REM THEN REM_update_targets(hp, <<>>, 0)
    ELSE BasePolicy_update_targets(hp, <<>>)

\* Agent.update_targets: F_s, F_sa if there is one, then the policy
Agent_update_targets(hp) ==
    <<Net(<<>>, "F_s")>>
    \o (IF hp.use_actor_critic THEN <<Net(<<>>, "F_sa")>> ELSE <<>>)
    \o policy_update_targets(hp)

\* the target of a net after the first k of the update_targets calls on it
RECURSIVE target_after(_, _, _, _, _)
target_after(hp, live, target, steps, k) ==
    IF k = 0 THEN target
    ELSE update_targets(hp, live, target_after(hp, live, target, steps, k - 1), steps).target

\* number of calls of update_targets on a net
sync_count(calls, net) == Cardinality({i \in 1..Len(calls) : calls[i] = net})

(* Agent.update_targets as a state machine *)

\* the hyperparameters Agent.create_policy and update_targets read
SyncHyperparameters ==
    [use_actor_critic : BOOLEAN, use_CACLA_V : BOOLEAN, use_QV : BOOLEAN,
     use_QVMAX : BOOLEAN, use_REM : BOOLEAN, REM_num_heads : 1..MaxHeads,
     use_polyak_averaging : BOOLEAN, target_network_hard_steps : 1..MaxHardSteps]

\* Agent.__init__: the feature extractor F_s with its target network
SyncInit ==
    /\ \E hp \in SyncHyperparameters, live \in Weights, target \in Weights :
           agent = [hp |-> hp, F_s |-> [live |-> live, target_net |-> Some(target)]]
    /\ memory = <<>>
    /\ a_call = NoACall
    /\ hyperparameters = None
    /\ live_net = None
    /\ target_net = None
    /\ td_call = NoCall
    /\ env = None
    /\ policy = None
    /\ h_call = NoHCall

\* Agent.update_targets(n_steps) after a training step
AgentUpdateTargets ==
    /\ a_call.op = "init"
    /\ \E n_steps \in 0..MaxSteps :
           /\ a_call' = [op |-> "update_targets", input |-> n_steps,
                         result |-> [calls |-> Agent_update_targets(agent.hp),
                                     old_target |-> agent.F_s.target_net]]
           /\ agent' = [agent EXCEPT !.F_s.target_net =
                           target_after(agent.hp, agent.F_s.live, @, n_steps,
                               sync_count(Agent_update_targets(agent.hp), Net(<<>>, "F_s")))]
    /\ UNCHANGED <<memory, td_vars, h_vars>>

SyncNext ==
    \/ AgentUpdateTargets
    \/ AReturn

SpecSync == SyncInit /\ [][SyncNext]_vars

\* C24: one Agent.update_targets(n) call syncs every target network it
\* reaches exactly once, the shared feature extractors F_s and F_sa included:
\* no net has update_targets called twice, and the target of F_s is what one
\* update_targets call makes of it.
C24_EachTargetSyncedOnce ==
    (a_call.op = "update_targets") =>
        /\ \A i \in 1..Len(a_call.result.calls) :
               sync_count(a_call.result.calls, a_call.result.calls[i]) = 1
        /\ agent.F_s.target_net =
               update_targets(agent.hp, agent.F_s.live, a_call.result.old_target,
                              a_call.input).target

-----------------------------------------------------------------------------
(* Claims about exploit and the single-branch policy, checked under SpecHier *)

\* C28: for a single-row state, the flat action exploit returns lies in the
\* range [shift, shift + n) of the branch the decider chose, whatever the
\* branch outputs.
C28_ExploitStaysInBranch ==
    (h_call.op = "exploit" /\ ~h_call.result.raised) =>
        /\ h_call.result.value
               >= policy.lower_level_policies[h_call.input.high_level_action + 1].shift
        /\ h_call.result.value
               < policy.lower_level_policies[h_call.input.high_level_action + 1].shift
                 + policy.lower_level_policies[h_call.input.high_level_action + 1].num_actions

\* C29: a MineRLHierarchicalPolicy with the move branch only (decider = None)
\* completes optimize_networks, choose_action and update_targets, and its
\* optimize_networks returns an error with one entry per batch row.
C29_SingleBranchCompletes ==
    ( /\ policy # None
      /\ policy.decider = None
      /\ h_call.op \in {"optimize_networks", "choose_action", "update_targets"} )
    => /\ ~h_call.result.raised
       /\ h_call.op = "optimize_networks" =>
              /\ h_call.result.error # None
              /\ Len(h_call.result.error[1]) = Len(h_call.input.state)

\* CACLA-Q is the rule the actor trains with, and no other rule is on
CACLA_Q_active ==
    /\ agent.use_CACLA_Q
    /\ ~agent.use_CACLA_V
    /\ ~agent.use_SPG
    /\ ~agent.use_DDPG

\* C25: with CACLA-Q as the active rule, Actor.optimize trains on exactly the
\* rows whose Q.TDE is strictly negative, with the action taken in each of
\* these rows as its target and the absolute value of the row's Q.TDE as its
\* sample weight.
C25_CACLA_Q_Selection ==
    (a_call.op = "Actor.optimize" /\ CACLA_Q_active) =>
        /\ ~a_call.result.raised
        /\ \A r \in 1..Len(a_call.input.Q_TDE) :
               (\E j \in 1..Len(a_call.result.rows) : a_call.result.rows[j] = r)
                   <=> a_call.input.Q_TDE[r] < 0
        /\ Len(a_call.result.target) = Len(a_call.result.rows)
        /\ Len(a_call.result.sample_weights) = Len(a_call.result.rows)
        /\ \A j \in 1..Len(a_call.result.rows) :
               /\ a_call.result.target[j] = a_call.input.action[a_call.result.rows[j]]
               /\ a_call.result.sample_weights[j]
                      = Abs(a_call.input.Q_TDE[a_call.result.rows[j]])

\* the number of actor rules the hyperparameters enable
enabled_rules(hp) ==
    (IF hp.use_CACLA_V THEN 1 ELSE 0) + (IF hp.use_CACLA_Q THEN 1 ELSE 0)
        + (IF hp.use_SPG THEN 1 ELSE 0) + (IF hp.use_DDPG THEN 1 ELSE 0)

\* the update of the call trains row r towards the action taken in it, with
\* the sample weight given
row_contributes(call, r, weight) ==
    \E j \in 1..Len(call.result.rows) :
        /\ call.result.rows[j] = r
        /\ call.result.target[j] = call.input.action[r]
        /\ call.result.sample_weights[j] = weight

\* C26: in an Actor.optimize call with more than one actor rule enabled,
\* every enabled rule contributes to the update: the call returns, each row
\* CACLA-V selects (V.TDE < 0) is trained with its taken action and the
\* weight -1, each row CACLA-Q selects (Q.TDE < 0) is trained with its taken
\* action and its Q.TDE weight, and the DDPG step is made when DDPG is on.
C26_EveryRuleContributes ==
    (a_call.op = "Actor.optimize" /\ enabled_rules(agent) > 1) =>
        /\ ~a_call.result.raised
        /\ agent.use_CACLA_V =>
               \A r \in 1..Len(a_call.input.TDE) :
                   a_call.input.TDE[r] < 0 => row_contributes(a_call, r, -1)
        /\ agent.use_CACLA_Q =>
               \A r \in 1..Len(a_call.input.Q_TDE) :
                   a_call.input.Q_TDE[r] < 0
                       => row_contributes(a_call, r, a_call.input.Q_TDE[r])
        /\ agent.use_DDPG => a_call.result.error = "q_vals"

-----------------------------------------------------------------------------
(* Claims about the mover's option indices, checked under SpecHier *)

\* C30: for every flat move index i, the option indices that
\* get_action_idxs_for_policy derives from env.action(i), recomposed by
\* apply_options on a fresh noop and env.dicts2idxs, give i again.
C30_MoveIndexRoundTrip ==
    (h_call.op = "move_round_trip") => h_call.result = Returned(h_call.input)

====
